---------------------------- MODULE Spec2Model ----------------------------
(***************************************************************************)
(* Model of importFromDirectus (src/unnamed/part_002, lines 405-909): the  *)
(* item synchronisation engine that copies the items of one collection     *)
(* from a source Directus instance to the target instance, together with   *)
(* the target-side stores it reads and writes (folders, files, items and   *)
(* the directus_sync_id_map identity mapping).                             *)
(*                                                                         *)
(* The function is sequential: every await is a point where a network     *)
(* call returns or fails.  Each action below is one stretch of the code     *)
(* between such points; the outcome of each call is chosen by the          *)
(* environment.                                                            *)
(***************************************************************************)
EXTENDS Integers, Sequences, FiniteSets, TLC

\* ------------------------------------------------------------------ bounds
\* longest source response
MaxItems == 2
\* injected network failures in one behaviour of Spec
MaxFaults == 2
\* injected network failures in one behaviour of SpecTwice
MaxFaultsTwice == 1
\* invocations of importFromDirectus in one behaviour of SpecTwice
MaxRuns == 2
\* injected network failures in one behaviour of SpecFair
MaxFaultsFair == 1
\* injected network failures in one behaviour of SpecQuery
MaxFaultsQuery == 1
\* the largest depth resolveRelatedCollections is called with
MaxDepth == 2
\* requests of one resolveRelatedCollections call that may fail
MaxFaultsResolve == 1

\* invocations of importFromLive in one behaviour of SpecLive
MaxImports == 2

\* the largest limit argument of SpecQuery
MaxLimit == 2
\* longest translations array of SpecTranslations
MaxTranslations == 2
\* items of an exported bundle
MaxBundleItems == 2
\* failing requests of an export followed by one import
MaxFaultsBundle == 2
\* imports of the same bundle
MaxBundleRuns == 2
\* failing requests of an export followed by two imports
MaxFaultsBundleTwice == 0

\* ------------------------------------------------------------------ values
Null == [t |-> "null", v |-> ""]
\* a string value
S(s) == [t |-> "str", v |-> s]
\* an object carrying a string id
O(s) == [t |-> "obj", v |-> s]
\* an object carrying a numeric id (a relation to an integer-keyed row)
ON(s) == [t |-> "objn", v |-> s]
\* an array value
Arr == [t |-> "arr", v |-> ""]

F(k, val) == [k |-> k, val |-> val]

\* String(x) of the code, for the numeric ids of items and mapping rows
String(n) == ToString(n)

\* the value of key k in a payload (a sequence of key/value pairs)
Get(payload, k) ==
    IF \E i \in 1..Len(payload) : payload[i].k = k
    THEN payload[CHOOSE i \in 1..Len(payload) : payload[i].k = k].val
    ELSE Null

\* ------------------------------------------------------------------ strings
\* The strings the code trims and the source searches are sequences of
\* characters.
RECURSIVE TrimStart(_)
TrimStart(s) == IF s # << >> /\ Head(s) = " " THEN TrimStart(Tail(s)) ELSE s

RECURSIVE TrimEnd(_)
TrimEnd(s) ==
    IF s # << >> /\ s[Len(s)] = " " THEN TrimEnd(SubSeq(s, 1, Len(s) - 1)) ELSE s

\* String.prototype.trim
trim(s) == TrimEnd(TrimStart(s))

\* the _contains operator of the source: sub occurs in s
Contains(s, sub) ==
    \E i \in 1..(Len(s) - Len(sub) + 1) : SubSeq(s, i, i + Len(sub) - 1) = sub

\* ------------------------------------------------------------------ source
\* The files the source instance holds, with the metadata GET /files/{id}
\* answers.
SourceFiles == {"fa", "fb"}

SourceMeta(fid) ==
    IF fid = "fa"
    THEN [checksum |-> "ca", filesize |-> 10, type |-> "image/png", title |-> "Alpha"]
    ELSE [checksum |-> "cb", filesize |-> 20, type |-> "image/png", title |-> ""]

\* Items the source collection can hold.  ItemA references one file from two
\* fields (as a string and as an object), ItemB carries a title and shares
\* the file of ItemA, ItemC has the id of ItemA with a system field, another
\* file, an array and an empty field.  translations holds the titles of the
\* rows of an item's translations array (ItemB has one, titled "Post").
ItemA == [id |-> 1, fields |-> << F("image", S("fa")), F("cover", O("fa")) >>,
          translations |-> << >>]
ItemB == [id |-> 2, fields |-> << F("title", S("Post")), F("image", S("fa")),
                                  F("author", ON("5")), F("translations", Arr) >>,
          translations |-> << << "P", "o", "s", "t" >> >>]
ItemC == [id |-> 1, fields |-> << F("user_created", S("u1")), F("image", S("fb")),
                                  F("cover", Arr), F("extra", Null) >>,
          translations |-> << >>]
ItemPool == {ItemA, ItemB, ItemC}

SeqsUpTo(n, X) == UNION {[1..m -> X] : m \in 0..n}

Sources == SeqsUpTo(MaxItems, ItemPool)

\* the limit argument: 0 stands for an absent or a zero limit
Limits == {0, 1}

\* the limit arguments of SpecQuery, a negative one among them
QueryLimits == (0 - 1)..MaxLimit

\* the titleFilter argument: absent, or a string
NoFilter == [given |-> FALSE, s |-> << >>]

Given(s) == [given |-> TRUE, s |-> s]

\* absent, empty, blank, one that matches the title of ItemB once trimmed, and
\* one that matches no title
TitleFilters ==
    {NoFilter, Given(<< >>), Given(<< " ", " " >>), Given(<< " ", "o", "s", " " >>),
     Given(<< "x" >>)}

\* whether the source applies the limit of a query to its answer (a Directus
\* instance does) or answers with every item the filter selects
Servers == {"limits", "ignores"}

\* the metadata of a file as far as sameFileMeta reads it: "" is an absent
\* checksum or type, a negative filesize one that is no number
Metas == [checksum : {"", "ca", "cb"}, filesize : {0 - 1, 10, 20},
          type : {"", "image/png", "image/jpeg"}]

VARIABLES
    \* --- the target instance
    folders,        \* ids of the folders named after the collection
    files,          \* target file id -> metadata
    items,          \* target item id -> stored payload
    idMap,          \* rows of directus_sync_id_map for the collection
    nextId,         \* counters of the ids the target hands out
    \* --- arguments and environment of the call
    source,         \* the items of the source collection
    limit,
    titleFilter,
    server,         \* how the source treats the limit of a query
    cmp,            \* operands and result of a stand-alone sameFileMeta call
    \* --- importFromDirectus, run level
    pc,
    importLog,
    targetFolderId,
    sourceItems,    \* the answer of the source, as an array
    itemsToImport,
    fileIdCache,
    importedItems,
    successCount,
    errorCount,
    result,
    \* --- importFromDirectus, item level
    idx,            \* position of the loop in itemsToImport
    mappedLocalId,
    existingItemData,
    cleanItem,
    key,            \* position of the field loop in Object.keys(cleanItem)
    perItem,        \* the three per-item caches
    importResponse, \* the id in the response of the item write
    \* --- observation
    obs

VARIABLES
    \* --- the ZIP export and import
    call,           \* a stand-alone call of one of the import's helpers
    zpc,            \* position of exportCollectionAsZip and importCollectionFromZip
    xitems,         \* the items of the exported collection
    xloc,           \* locals of exportCollectionAsZip
    zip,            \* the entries of the archive, in the order of their creation
    tgt,            \* the instance the bundle is imported into
    zloc,           \* locals of importCollectionFromZip
    zobs            \* observation of the export and the import

VARIABLES
    \* --- the module's page
    selectedDomain, \* the server URL input
    adminToken,     \* the token input
    loadingStates,  \* key -> flag; a key is << operation, collection >>, with
                    \* "" as collection for the key of the operation alone
    operationStatus,
    liveCalls       \* the invocations of importFromLive

bundlev == << zpc, xitems, xloc, zip, tgt, zloc, zobs >>
livev == << selectedDomain, adminToken, loadingStates, operationStatus, liveCalls >>
zipv == << call, bundlev, livev >>

env == << folders, files, items, idMap, nextId >>
args == << source, limit, titleFilter, server, cmp, zipv >>
fetchv == << sourceItems, itemsToImport >>
runv == << importLog, targetFolderId, fetchv, fileIdCache, importedItems,
           successCount, errorCount, result >>
itemv == << idx, mappedLocalId, existingItemData, cleanItem, key, perItem,
           importResponse >>
\* the state of importFromDirectus and of sameFileMeta
importv ==
    << env, source, limit, titleFilter, server, cmp, pc, runv, itemv, obs, livev >>
vars == << env, args, pc, runv, itemv, obs >>


\* ------------------------------------------------------------------ helpers
Min(a, b) == IF a < b THEN a ELSE b

NoData == [has |-> FALSE, data |-> << >>]

EmptyMap == [x \in {} |-> ""]

NoCaches == [s2t |-> EmptyMap, patched |-> {}, meta |-> {}]

\* a message: its fixed text and the title filter quoted in it (none: << >>)
Msg(text, filter) == [text |-> text, filter |-> filter]

NoResult == [returned |-> FALSE, success |-> FALSE, message |-> Msg("", << >>),
             hasItems |-> FALSE, importedItems |-> << >>]

\* no query has been sent
NoQuery == [limit |-> 0, filtered |-> FALSE, filter |-> << >>]

\* no stand-alone call of sameFileMeta
NoMeta == [checksum |-> "", filesize |-> 0 - 1, type |-> ""]

NoCmp == [src |-> NoMeta, dst |-> NoMeta, out |-> "idle"]

\* no stand-alone call of a helper of the ZIP import
NoCall == [fn |-> "", done |-> TRUE]

\* the page as setup() leaves it, with no server URL and no token
LiveIdle ==
    /\ selectedDomain = ""
    /\ adminToken = ""
    /\ loadingStates = [k \in {<< "import", "" >>, << "push", "" >>,
                               << "token_validation", "" >>,
                               << "test_collections", "" >>} |-> FALSE]
    /\ operationStatus = [status |-> 0, type |-> "null"]
    /\ liveCalls = << >>

\* no export and no import of a bundle
BundleIdle ==
    /\ zpc = "off"
    /\ xitems = << >>
    /\ xloc = << >>
    /\ zip = << >>
    /\ tgt = << >>
    /\ zloc = << >>
    /\ zobs = << >>

Entry(step, itemId, field) == [step |-> step, item |-> itemId, field |-> field]

\* what one invocation has done so far (reset by StartImport)
NoCalls == [tokenOk |-> FALSE, fetched |-> FALSE, loop |-> FALSE,
            folderFault |-> FALSE, validatedAt |-> "", query |-> NoQuery,
            srcFetch |-> 0, srcFile |-> 0,
            folderPost |-> 0, filePost |-> 0, filePatch |-> 0, itemPost |-> 0,
            itemPatch |-> 0, mapPost |-> 0, mapPatch |-> 0,
            upOk |-> [f \in SourceFiles |-> 0]]

\* what the processing of the current item has done so far (reset per item)
NoItemCalls == [hadRow |-> FALSE, lookupFault |-> FALSE, upsertFault |-> FALSE,
                cachedAtStart |-> {}, uploads |-> [f \in SourceFiles |-> 0],
                fileFault |-> FALSE, failedKeys |-> {}, hitFiles |-> {},
                reusedFiles |-> {}, cmpFailed |-> {}, uploadKeys |-> {},
                updates |-> 0, updTarget |-> "", updOk |-> FALSE,
                creates |-> 0, createOk |-> FALSE, written |-> << >>]

\* the outcomes the environment may give a network call
Outcomes == IF obs.faults < obs.faultCap THEN {"ok", "fail"} ELSE {"ok"}

Tally(o) == IF o = "ok" THEN obs.faults ELSE obs.faults + 1

\* the item the loop is at
item == itemsToImport[idx]

\* the first row of directus_sync_id_map the filter (table, sync_id) selects
MapRows(syncId) == {r \in idMap : r.sync = String(syncId)}

FirstRow(rows) == CHOOSE r \in rows : \A q \in rows : r.rid <= q.rid

\* the target item a path /items/{collection}/{localId} addresses
ItemAt(localId) == {i \in DOMAIN items : String(i) = localId}

\* ------------------------------------------------------------------ target
\* a target nothing has been imported into
TargetEmpty ==
    [folders |-> {}, files |-> EmptyMap, items |-> EmptyMap, idMap |-> {},
     nextId |-> [folder |-> 1, file |-> 1, item |-> 1, row |-> 1]]

\* the target after an earlier import of << ItemA >> in which every call
\* succeeded
TargetSynced ==
    [folders |-> {"d1"},
     files |-> ("f1" :> [checksum |-> "ca", filesize |-> 10, type |-> "image/png",
                         title |-> "Alpha", folder |-> "d1"]),
     items |-> (1 :> << F("image", S("f1")), F("cover", S("f1")) >>),
     idMap |-> {[rid |-> 1, sync |-> "1", loc |-> "1"]},
     nextId |-> [folder |-> 2, file |-> 2, item |-> 2, row |-> 2]]

\* the same target after its item 1 was deleted: the mapping row is stale
TargetStale == [TargetSynced EXCEPT !.items = EmptyMap]

\* the target after an earlier import of << ItemA >> whose folder lookup
\* failed: there is no folder and the uploaded file lies in none
TargetUnfiled ==
    [TargetSynced EXCEPT !.folders = {}, !.files["f1"].folder = "",
                         !.nextId.folder = 1]

Targets == {TargetEmpty, TargetSynced, TargetStale, TargetUnfiled}

InitOf(targets, runCap, faultCap, limits, filters, servers) ==
    /\ \E t \in targets :
        /\ folders = t.folders
        /\ files = t.files
        /\ items = t.items
        /\ idMap = t.idMap
        /\ nextId = t.nextId
    /\ source \in Sources
    /\ limit \in limits
    /\ titleFilter \in filters
    /\ server \in servers
    /\ pc = "idle"
    /\ importLog = << >>
    /\ targetFolderId = ""
    /\ sourceItems = << >>
    /\ itemsToImport = << >>
    /\ fileIdCache = EmptyMap
    /\ importedItems = << >>
    /\ successCount = 0
    /\ errorCount = 0
    /\ result = NoResult
    /\ idx = 0
    /\ mappedLocalId = ""
    /\ existingItemData = NoData
    /\ cleanItem = << >>
    /\ key = 0
    /\ perItem = NoCaches
    /\ importResponse = 0
    /\ obs = [run |-> 0, runCap |-> runCap, faults |-> 0, faultCap |-> faultCap,
              c |-> NoCalls, ic |-> NoItemCalls,
              atStart |-> << folders, files, items, idMap >>,
              first |-> [tokenOk |-> FALSE, importedItems |-> << >>]]

\* a call without a title filter to a source that applies the limit
InitWith(targets, runCap, faultCap) ==
    /\ InitOf(targets, runCap, faultCap, Limits, {NoFilter}, {"limits"})
    /\ cmp = NoCmp
    /\ call = NoCall
    /\ BundleIdle
    /\ LiveIdle

Init == InitWith(Targets, 1, MaxFaults)

InitTwice == InitWith({TargetEmpty}, MaxRuns, MaxFaultsTwice)

InitFair == InitWith(Targets, 1, MaxFaultsFair)

\* calls with every limit and title filter, to both kinds of source
InitQuery ==
    /\ InitOf({TargetEmpty}, 1, MaxFaultsQuery, QueryLimits, TitleFilters, Servers)
    /\ cmp = NoCmp
    /\ call = NoCall
    /\ BundleIdle
    /\ LiveIdle

\* a stand-alone call of sameFileMeta on any two metadata records
InitMeta ==
    /\ InitOf({TargetEmpty}, 0, 0, {0}, {NoFilter}, {"limits"})
    /\ source = << >>
    /\ cmp \in [src : Metas, dst : Metas, out : {"none"}]
    /\ call = NoCall
    /\ BundleIdle
    /\ LiveIdle

\* no call of importFromDirectus and none of sameFileMeta
Idle ==
    /\ InitOf({TargetEmpty}, 0, 0, {0}, {NoFilter}, {"limits"})
    /\ source = << >>
    /\ cmp = NoCmp

\* ------------------------------------------------------------------ run
\* a variant of logStep that puts the entry in front of the log
logStepFront(step, itemId, field) == << Entry(step, itemId, field) >> \o importLog

\* a variant of logStep that drops the entry
logStepNone(step, itemId, field) == importLog

\* logStep
logStep(step, itemId, field) == Append(importLog, Entry(step, itemId, field))

\* the call: importLog and the locals are fresh, import_start is logged
StartImport ==
    /\ pc \in {"idle", "done"}
    /\ obs.run < obs.runCap
    /\ importLog' = << Entry("import_start", 0, "") >>
    /\ targetFolderId' = ""
    /\ sourceItems' = << >>
    /\ itemsToImport' = << >>
    /\ fileIdCache' = EmptyMap
    /\ importedItems' = << >>
    /\ successCount' = 0
    /\ errorCount' = 0
    /\ result' = NoResult
    /\ idx' = 0
    /\ mappedLocalId' = ""
    /\ existingItemData' = NoData
    /\ cleanItem' = << >>
    /\ key' = 0
    /\ perItem' = NoCaches
    /\ importResponse' = 0
    /\ pc' = "validate"
    /\ obs' = [obs EXCEPT !.run = @ + 1, !.c = NoCalls, !.ic = NoItemCalls,
                          !.atStart = << folders, files, items, idMap >>,
                          !.first = IF obs.run = 1
                                    THEN [tokenOk |-> obs.c.tokenOk,
                                          importedItems |-> importedItems]
                                    ELSE @]
    /\ UNCHANGED << env, args >>

\* a variant of Fatal without the outer catch: the failure reaches the caller
FatalThrown(log) ==
    /\ importLog' = log
    /\ result' = result
    /\ pc' = "thrown"

\* the outer catch: fatal_error is logged (after the entries of log) and the
\* failure result returned
Fatal(log) ==
    /\ importLog' = Append(log, Entry("fatal_error", 0, ""))
    /\ result' = [returned |-> TRUE, success |-> FALSE,
                  message |-> Msg("Import failed", << >>),
                  hasItems |-> FALSE, importedItems |-> << >>]
    /\ pc' = "done"

\* a variant of AfterValidation that goes on after a failed validation
AfterValidationAlways(valid) == "folder"

\* where the run continues after the validation: a failed one returns at once
AfterValidation(valid) == IF valid THEN "folder" ELSE "done"

\* the apiInstance argument: the handle of the target instance.  Every
\* request to the target goes through it, and the callers always pass one.
apiInstance == TRUE

\* the instance validateDirectusToken sends its request to: the handle it is
\* given if there is one, else a client for selectedDomain (the source)
directusApi(api) == IF api THEN "target" ELSE "source"

\* validateDirectusToken(sourceUrl, sourceToken, apiInstance) and the check
\* of its result
ValidateToken ==
    /\ pc = "validate"
    /\ \E valid \in BOOLEAN :
        IF valid
        THEN /\ importLog' = logStep("token_validation_success", 0, "")
             /\ result' = result
             /\ pc' = AfterValidation(valid)
             /\ obs' = [obs EXCEPT !.c.tokenOk = TRUE,
                                   !.c.validatedAt = directusApi(apiInstance)]
        ELSE /\ importLog' = logStep("token_validation_failed", 0, "")
             /\ result' = [returned |-> TRUE, success |-> FALSE,
                           message |-> Msg("Token validation failed", << >>),
                           hasItems |-> FALSE, importedItems |-> << >>]
             /\ pc' = AfterValidation(valid)
             /\ obs' = [obs EXCEPT !.c.validatedAt = directusApi(apiInstance)]
    /\ UNCHANGED << env, args, targetFolderId, fetchv, fileIdCache,
                    importedItems, successCount, errorCount, itemv >>

\* a variant of existingFolder that never finds the folder
existingFolderNone(found) == ""

\* the id of the first folder the lookup by name answered, "" without one
existingFolder(found) == IF found # {} THEN CHOOSE d \in found : TRUE ELSE ""

\* GET /folders filtered by the collection name
FindFolder ==
    /\ pc = "folder"
    /\ \E o \in Outcomes :
        /\ obs' = [obs EXCEPT !.faults = Tally(o),
                              !.c.folderFault = (o = "fail")]
        /\ IF o = "fail"
           THEN /\ importLog' = logStep("target_folder_error", 0, "")
                /\ targetFolderId' = targetFolderId
                /\ pc' = "fetch"
           ELSE IF existingFolder(folders) # ""
           THEN /\ targetFolderId' = existingFolder(folders)
                /\ importLog' = logStep("target_folder_ready", 0, "")
                /\ pc' = "fetch"
           ELSE /\ UNCHANGED << targetFolderId, importLog >>
                /\ pc' = "mkfolder"
    /\ UNCHANGED << env, args, fetchv, fileIdCache, importedItems,
                    successCount, errorCount, result, itemv >>

\* POST /folders
CreateFolder ==
    /\ pc = "mkfolder"
    /\ \E o \in Outcomes :
        /\ obs' = [obs EXCEPT !.faults = Tally(o), !.c.folderPost = @ + 1,
                              !.c.folderFault = (o = "fail")]
        /\ IF o = "fail"
           THEN /\ importLog' = logStep("target_folder_error", 0, "")
                /\ UNCHANGED << targetFolderId, folders, nextId >>
           ELSE /\ targetFolderId' = "d" \o String(nextId.folder)
                /\ folders' = folders \cup {"d" \o String(nextId.folder)}
                /\ nextId' = [nextId EXCEPT !.folder = @ + 1]
                /\ importLog' = logStep("target_folder_ready", 0, "")
    /\ pc' = "fetch"
    /\ UNCHANGED << files, items, idMap, args, fetchv, fileIdCache,
                    importedItems, successCount, errorCount, result, itemv >>

\* a variant of Slice that imports whatever was fetched
SliceNone(fetched, lim) == fetched

\* the slice of the fetched items that is imported
Slice(fetched, lim) ==
    IF lim > 0 THEN SubSeq(fetched, 1, Min(lim, Len(fetched))) ELSE fetched

\* a variant of AfterItem in which the loop ends with this item
AfterItemEnd(i) == "finish"

\* the pc after the item at position i is finished
AfterItem(i) == IF i + 1 > Len(itemsToImport) THEN "finish" ELSE "lookup"

\* the limit of the query: the limit argument if it is a positive number
fetchLimit(lim) == IF lim > 0 THEN lim ELSE 0 - 1

\* a variant of filterOf that passes the filter on untrimmed
filterOfUntrimmed(tf) == IF tf.given THEN tf.s ELSE << >>

\* titleFilter.trim() where titleFilter && titleFilter.trim(), else nothing
filterOf(tf) == IF tf.given /\ trim(tf.s) # << >> THEN trim(tf.s) ELSE << >>

\* queryParams: the limit, and the filter on translations.title if one is due
queryParams(lim, tf) ==
    [limit |-> fetchLimit(lim), filtered |-> filterOf(tf) # << >>,
     filter |-> filterOf(tf)]

\* the answer of the source to readItems(collectionName, query): the items
\* with a translation whose title contains the filter, cut to the limit by
\* a source that applies it
readItems(collection, query) ==
    LET Hit(it) == \E j \in 1..Len(it.translations) :
                       Contains(it.translations[j], query.filter)
        hits == IF query.filtered THEN SelectSeq(collection, Hit) ELSE collection
    IN IF server = "limits" /\ query.limit > 0
       THEN SubSeq(hits, 1, Min(query.limit, Len(hits)))
       ELSE hits

\* what the run appends to the log before the request
FetchStarted(tf) ==
    IF filterOf(tf) # << >>
    THEN Append(logStep("fetch_data_start", 0, ""), Entry("title_filter_applied", 0, ""))
    ELSE logStep("fetch_data_start", 0, "")

\* a variant of EmptyResult that reports the empty source as a failure
EmptyResultFailed(tf) ==
    [returned |-> TRUE, success |-> FALSE, message |-> Msg("Import failed", << >>),
     hasItems |-> FALSE, importedItems |-> << >>]

\* the result returned when the source answers with no item
EmptyResult(tf) ==
    [returned |-> TRUE, success |-> TRUE,
     message |-> Msg("is empty on the source server", filterOf(tf)),
     hasItems |-> TRUE, importedItems |-> << >>]

\* sourceDirectus.request(readItems(collectionName, queryParams)) and the
\* handling of its answer
FetchSource ==
    /\ pc = "fetch"
    /\ \E o \in Outcomes :
        LET query == queryParams(limit, titleFilter)
            response == readItems(source, query)
            started == FetchStarted(titleFilter)
        IN
        /\ obs' = [obs EXCEPT !.faults = Tally(o), !.c.srcFetch = @ + 1,
                              !.c.query = query,
                              !.c.fetched = (o = "ok"),
                              !.c.loop = (o = "ok" /\ Len(response) > 0)]
        /\ IF o = "fail"
           THEN /\ Fatal(started)
                /\ UNCHANGED << fetchv, idx >>
           ELSE IF Len(response) = 0
           THEN /\ importLog' = started \o << Entry("fetch_data_success", 0, ""),
                                              Entry("collection_empty", 0, "") >>
                /\ result' = EmptyResult(titleFilter)
                /\ pc' = "done"
                /\ UNCHANGED << fetchv, idx >>
           ELSE /\ importLog' = started \o << Entry("fetch_data_success", 0, ""),
                                              Entry("import_items_start", 0, "") >>
                /\ sourceItems' = response
                /\ itemsToImport' = Slice(response, limit)
                /\ idx' = 1
                /\ pc' = "lookup"
                /\ result' = result
    /\ UNCHANGED << env, args, targetFolderId, fileIdCache, importedItems,
                    successCount, errorCount, mappedLocalId, existingItemData,
                    cleanItem, key, perItem, importResponse >>

\* ------------------------------------------------------------------ item
SystemFields == {"id", "date_created", "date_updated", "user_created", "user_updated"}

IsClean(f) == f.k \notin SystemFields

\* the rest of the destructuring: the item without its system fields
CleanItem(raw) == SelectSeq(raw.fields, IsClean)

\* deriveItemTitle, for items without translations: the item's own title
deriveItemTitle(raw) ==
    LET t == Get(raw.fields, "title")
    IN IF t.t = "str" /\ t.v # "" THEN t.v ELSE ""

\* a variant of AfterField in which the field loop ends with this field
AfterFieldStop(k) == "write"

\* the pc after the field at position k
AfterField(k) == IF k + 1 > Len(cleanItem) THEN "write" ELSE "field"

\* a variant of LocalIdOf that never finds a mapping
LocalIdOfNone(rows) == ""

\* what getMappedLocalId makes of the rows the store answered

LocalIdOf(rows) ==
    IF rows # {} /\ FirstRow(rows).loc # "" THEN FirstRow(rows).loc ELSE ""

\* a variant of mapHit that has the rows whatever became of the request
mapHitAnyway(o, rows) == rows

\* the rows getMappedLocalId has after its request: those of the answer, or
\* none when the request failed and the catch returns null
mapHit(o, rows) == IF o = "ok" THEN rows ELSE {}

\* the head of the loop body and getMappedLocalId
GetMappedLocalId ==
    /\ pc = "lookup"
    /\ \E o \in Outcomes :
        LET rows == MapRows(item.id)
            mapped == LocalIdOf(mapHit(o, rows))
        IN /\ mappedLocalId' = mapped
           /\ pc' = IF mapped # "" THEN "snapshot"
                    ELSE IF Len(CleanItem(item)) = 0 THEN "write" ELSE "field"
           /\ obs' = [obs EXCEPT !.faults = Tally(o),
                                 !.ic = [NoItemCalls EXCEPT
                                           !.hadRow = (rows # {}),
                                           !.lookupFault = (o = "fail"),
                                           !.cachedAtStart = DOMAIN fileIdCache]]
    /\ cleanItem' = CleanItem(item)
    /\ existingItemData' = NoData
    /\ perItem' = NoCaches
    /\ key' = 1
    /\ UNCHANGED << env, args, runv, idx, importResponse >>

\* GET /items/{collection}/{mappedLocalId}: the snapshot of the existing item
GetExisting ==
    /\ pc = "snapshot"
    /\ LET there == ItemAt(mappedLocalId)
       IN \E o \in (IF there # {} THEN Outcomes ELSE {"ok"}) :
           /\ existingItemData' =
                 IF there # {} /\ o = "ok"
                 THEN [has |-> TRUE, data |-> items[CHOOSE i \in there : TRUE]]
                 ELSE NoData
           /\ obs' = [obs EXCEPT !.faults = Tally(o)]
    /\ pc' = IF Len(cleanItem) = 0 THEN "write" ELSE "field"
    /\ UNCHANGED << env, args, runv, idx, mappedLocalId, cleanItem, key, perItem,
                    importResponse >>

\* ------------------------------------------------------------------ fields
value == cleanItem[key].val

Falsy(v) == v.t = "null" \/ (v.t = "str" /\ v.v = "")

\* a variant of candidateId that takes strings only
candidateIdOfString(v) == IF v.t = "str" THEN v.v ELSE ""

\* the candidate file id of a value: a string, or the string id of an object
candidateId(v) ==
    IF v.t = "str" THEN v.v
    ELSE IF v.t = "obj" THEN v.v
    ELSE ""

\* the file id the existing target item holds in a field
existingTargetFileId(v) ==
    IF v.t \in {"str", "obj", "objn"} THEN v.v ELSE ""

\* perItemSourceToTargetFileId.has(candidateId)
InItem(cand) == cand \in DOMAIN perItem.s2t

\* a variant of isArray that takes no value for an array
isArrayNever(v) == FALSE

\* Array.isArray
isArray(v) == v.t = "arr"

\* a field that is no candidate: empty, an array, or without a string id
FieldSkip ==
    /\ pc = "field"
    /\ Falsy(value) \/ isArray(value) \/ candidateId(value) = ""
    /\ importLog' = IF ~Falsy(value) /\ isArray(value)
                    THEN logStep("file_copy_skip", item.id, cleanItem[key].k)
                    ELSE importLog
    /\ key' = key + 1
    /\ pc' = AfterField(key)
    /\ UNCHANGED << env, args, targetFolderId, fetchv, fileIdCache,
                    importedItems, successCount, errorCount, result, idx,
                    mappedLocalId, existingItemData, cleanItem, perItem,
                    importResponse, obs >>

\* a source file this item has already resolved is reused at once
FieldReuseInItem ==
    /\ pc = "field"
    /\ ~Falsy(value) /\ ~isArray(value) /\ candidateId(value) # ""
    /\ InItem(candidateId(value))
    /\ cleanItem' = [cleanItem EXCEPT ![key].val = S(perItem.s2t[candidateId(value)])]
    /\ importLog' = logStep("file_reused_in_item", item.id, cleanItem[key].k)
    /\ key' = key + 1
    /\ pc' = AfterField(key)
    /\ UNCHANGED << env, args, targetFolderId, fetchv, fileIdCache,
                    importedItems, successCount, errorCount, result, idx,
                    mappedLocalId, existingItemData, perItem, importResponse, obs >>

\* a variant of headResOk that takes every answer for OK
headResOkAlways(cand) == TRUE

\* headRes.ok: the source answers the probe with OK for the ids of its files
headResOk(cand) == cand \in SourceFiles

\* the probe GET {sourceUrl}/files/{candidateId}
FieldProbe ==
    /\ pc = "field"
    /\ ~Falsy(value) /\ ~isArray(value) /\ candidateId(value) # ""
    /\ ~InItem(candidateId(value))
    /\ \E o \in Outcomes :
        /\ obs' = [obs EXCEPT !.faults = Tally(o), !.c.srcFile = @ + 1,
                              !.ic.fileFault = @ \/ o = "fail",
                              !.ic.failedKeys = IF o = "fail"
                                                THEN @ \cup {cleanItem[key].k} ELSE @]
        /\ IF o = "fail"
           THEN /\ importLog' = logStep("file_copy_error", item.id, cleanItem[key].k)
                /\ key' = key + 1
                /\ pc' = AfterField(key)
           ELSE IF ~headResOk(candidateId(value))
           THEN /\ importLog' = importLog
                /\ key' = key + 1
                /\ pc' = AfterField(key)
           ELSE /\ importLog' = importLog
                /\ key' = key
                /\ pc' = IF /\ existingItemData.has
                            /\ existingTargetFileId(
                                   Get(existingItemData.data, cleanItem[key].k)) # ""
                         THEN "compare" ELSE "copy"
    /\ UNCHANGED << env, args, targetFolderId, fetchv, fileIdCache,
                    importedItems, successCount, errorCount, result, idx,
                    mappedLocalId, existingItemData, cleanItem, perItem,
                    importResponse >>

\* a variant of sameFileMeta that never finds two files the same
sameFileMetaNever(src, dst) == FALSE

\* a variant of sameFileMeta that compares sizes and types only
sameFileMetaSizeOnly(src, dst) ==
    /\ src.filesize >= 0 /\ dst.filesize >= 0 /\ src.filesize = dst.filesize
    /\ ~(src.type # "" /\ dst.type # "" /\ src.type # dst.type)

\* sameFileMeta: equal checksums, else equal numeric sizes and no type clash
\* ("" is an absent checksum or type, a negative size a size that is no number)
sameFileMeta(src, dst) ==
    IF src.checksum # "" /\ dst.checksum # "" /\ src.checksum = dst.checksum
    THEN TRUE
    ELSE IF src.filesize >= 0 /\ dst.filesize >= 0 /\ src.filesize = dst.filesize
    THEN ~(src.type # "" /\ dst.type # "" /\ src.type # dst.type)
    ELSE FALSE

\* the fields of the patch that aligns a reused file with this import
PatchKeys(dst, desiredTitle) ==
    (IF desiredTitle # "" /\ dst.title # desiredTitle THEN {"title"} ELSE {})
    \cup (IF targetFolderId # "" /\ dst.folder # targetFolderId THEN {"folder"} ELSE {})

Patched(dst, desiredTitle) ==
    [dst EXCEPT !.title = IF "title" \in PatchKeys(dst, desiredTitle)
                          THEN desiredTitle ELSE @,
                !.folder = IF "folder" \in PatchKeys(dst, desiredTitle)
                           THEN targetFolderId ELSE @]

\* the comparison of the source file with the file the existing target item
\* holds in this field: reuse (and patch) it, or fall through to the copy.
\* at names the call that fails, if one does.
FieldCompare ==
    /\ pc = "compare"
    /\ LET cand == candidateId(value)
           ex == existingTargetFileId(Get(existingItemData.data, cleanItem[key].k))
           known == ex \in DOMAIN files
           same == known /\ sameFileMeta(SourceMeta(cand), files[ex])
           title == deriveItemTitle(item)
           doPatch == same /\ PatchKeys(files[ex], title) # {}
                           /\ ex \notin perItem.patched
           mayFail == obs.faults < obs.faultCap
       IN \E at \in {"ok"}
                    \cup (IF mayFail /\ cand \notin perItem.meta THEN {"src"} ELSE {})
                    \cup (IF mayFail /\ known THEN {"dst"} ELSE {})
                    \cup (IF mayFail /\ doPatch THEN {"patch"} ELSE {}) :
           /\ IF at = "ok" /\ same
              THEN /\ files' = IF doPatch
                               THEN [files EXCEPT ![ex] = Patched(@, title)]
                               ELSE files
                   /\ perItem' = [perItem EXCEPT
                                    !.meta = @ \cup {cand},
                                    !.patched = IF doPatch THEN @ \cup {ex} ELSE @,
                                    !.s2t = (cand :> ex) @@ @]
                   /\ importLog' = logStep(IF doPatch THEN "file_reused_and_patched"
                                           ELSE "file_reused", item.id, cleanItem[key].k)
                   /\ cleanItem' = [cleanItem EXCEPT ![key].val = S(ex)]
                   /\ key' = key + 1
                   /\ pc' = AfterField(key)
              ELSE /\ perItem' = [perItem EXCEPT
                                    !.meta = IF at = "src" THEN @ ELSE @ \cup {cand}]
                   /\ pc' = "copy"
                   /\ UNCHANGED << files, importLog, cleanItem, key >>
           /\ obs' = [obs EXCEPT
                        !.faults = Tally(at),
                        !.c.srcFile = IF cand \in perItem.meta THEN @ ELSE @ + 1,
                        !.c.filePatch = IF at \in {"ok", "patch"} /\ doPatch
                                        THEN @ + 1 ELSE @,
                        !.ic.reusedFiles = IF at = "ok" /\ same
                                           THEN @ \cup {cand} ELSE @,
                        !.ic.cmpFailed = IF at # "ok"
                                         THEN @ \cup {cleanItem[key].k} ELSE @]
    /\ UNCHANGED << folders, items, idMap, nextId, args, targetFolderId,
                    fetchv, fileIdCache, importedItems, successCount,
                    errorCount, result, idx, mappedLocalId, existingItemData,
                    importResponse >>

\* a variant of InRun that never finds the file in the cache
InRunNever(fid) == FALSE

\* fileIdCache.has(fileId)
InRun(fid) == fid \in DOMAIN fileIdCache

\* the title of an uploaded file: the item's title, else the source file's
finalTitle(preferredTitle, fileMeta) ==
    IF preferredTitle # "" THEN preferredTitle ELSE fileMeta.title

\* copyFileToTarget and the bookkeeping around it.  An uncached file is
\* fetched from the source (metadata, then binary) and uploaded by
\* POST /files; "fetch" and "upload" name the call that fails.
FieldCopy ==
    /\ pc = "copy"
    /\ LET cand == candidateId(value)
           fresh == "f" \o String(nextId.file)
           started == logStep("file_copy_start", item.id, cleanItem[key].k)
           failed == Append(started, Entry("file_copy_error", item.id, cleanItem[key].k))
           copied == Append(started, Entry("file_copy_success", item.id, cleanItem[key].k))
       IN IF InRun(cand)
          THEN /\ cleanItem' = [cleanItem EXCEPT ![key].val = S(fileIdCache[cand])]
               /\ perItem' = [perItem EXCEPT !.s2t = (cand :> fileIdCache[cand]) @@ @]
               /\ importLog' = copied
               /\ obs' = [obs EXCEPT !.ic.hitFiles = @ \cup {cand}]
               /\ UNCHANGED << files, nextId, fileIdCache >>
          ELSE \E o \in {"ok"} \cup (IF obs.faults < obs.faultCap
                                     THEN {"fetch", "upload"} ELSE {}) :
               /\ obs' = [obs EXCEPT
                            !.faults = Tally(o),
                            !.c.srcFile = @ + 1,
                            !.c.filePost = IF o = "fetch" THEN @ ELSE @ + 1,
                            !.c.upOk[cand] = IF o = "ok" THEN @ + 1 ELSE @,
                            !.ic.uploads[cand] = IF o = "fetch" THEN @ ELSE @ + 1,
                            !.ic.uploadKeys = IF o = "fetch" THEN @
                                              ELSE @ \cup {cleanItem[key].k},
                            !.ic.fileFault = @ \/ o # "ok",
                            !.ic.failedKeys = IF o # "ok"
                                              THEN @ \cup {cleanItem[key].k} ELSE @]
               /\ IF o = "ok"
                  THEN /\ files' = (fresh :> [checksum |-> SourceMeta(cand).checksum,
                                              filesize |-> SourceMeta(cand).filesize,
                                              type |-> SourceMeta(cand).type,
                                              title |-> finalTitle(deriveItemTitle(item),
                                                                   SourceMeta(cand)),
                                              folder |-> targetFolderId]) @@ files
                       /\ nextId' = [nextId EXCEPT !.file = @ + 1]
                       /\ fileIdCache' = (cand :> fresh) @@ fileIdCache
                       /\ cleanItem' = [cleanItem EXCEPT ![key].val = S(fresh)]
                       /\ perItem' = [perItem EXCEPT !.s2t = (cand :> fresh) @@ @]
                       /\ importLog' = copied
                  ELSE /\ importLog' = failed
                       /\ UNCHANGED << files, nextId, fileIdCache, cleanItem, perItem >>
    /\ key' = key + 1
    /\ pc' = AfterField(key)
    /\ UNCHANGED << folders, items, idMap, args, targetFolderId, fetchv,
                    importedItems, successCount, errorCount, result, idx,
                    mappedLocalId, existingItemData, importResponse >>

\* ------------------------------------------------------------------ write
\* a partial update: the payload's keys replace the stored ones
Merge(old, payload) ==
    LET Kept(f) == \A i \in 1..Len(payload) : payload[i].k # f.k
    IN payload \o SelectSeq(old, Kept)

\* the entry pushed for a written item
Success(raw, id, action) ==
    [originalId |-> raw.id, newId |-> id, status |-> "success", action |-> action]

\* the entry pushed by the per-item catch
Failure(raw) ==
    [originalId |-> raw.id, newId |-> 0, status |-> "error", action |-> ""]

\* a variant of AfterFailedUpdate without the fallback create
AfterFailedUpdateNoCreate == "upsert"

\* where a failed update continues: the create of the catch block
AfterFailedUpdate == "create"

\* PATCH /items/{collection}/{mappedLocalId} for a mapped item
UpdateItem ==
    /\ pc = "write"
    /\ mappedLocalId # ""
    /\ LET there == ItemAt(mappedLocalId)
           id == CHOOSE i \in there : TRUE
           started == logStep("item_update_start", item.id, "")
       IN \E o \in (IF there # {} THEN Outcomes ELSE {"ok"}) :
           /\ obs' = [obs EXCEPT !.faults = Tally(o),
                                 !.c.itemPatch = @ + 1,
                                 !.ic.updates = @ + 1,
                                 !.ic.updTarget = mappedLocalId,
                                 !.ic.updOk = (there # {} /\ o = "ok"),
                                 !.ic.written = IF there # {} /\ o = "ok"
                                                THEN cleanItem ELSE @]
           /\ IF there # {} /\ o = "ok"
              THEN /\ items' = [items EXCEPT ![id] = Merge(@, cleanItem)]
                   /\ importResponse' = id
                   /\ importedItems' = Append(importedItems, Success(item, id, "updated"))
                   /\ successCount' = successCount + 1
                   /\ importLog' = Append(started, Entry("item_updated", item.id, ""))
                   /\ pc' = "upsert"
              ELSE /\ importLog' = Append(started,
                                      Entry("item_update_failed_fallback_create", item.id, ""))
                   /\ pc' = AfterFailedUpdate
                   /\ UNCHANGED << items, importResponse, importedItems, successCount >>
    /\ UNCHANGED << folders, files, idMap, nextId, args, targetFolderId,
                    fetchv, fileIdCache, errorCount, result, idx,
                    mappedLocalId, existingItemData, cleanItem, key, perItem >>

\* a variant of ItemFailed in which the failure ends the loop
ItemFailedAborts ==
    /\ errorCount' = errorCount + 1
    /\ importedItems' = Append(importedItems, Failure(item))
    /\ importLog' = logStep("item_import_failed", item.id, "")
    /\ idx' = idx + 1
    /\ pc' = "finish"

\* the per-item catch: the error entry is pushed and the loop goes on
ItemFailed ==
    /\ errorCount' = errorCount + 1
    /\ importedItems' = Append(importedItems, Failure(item))
    /\ importLog' = logStep("item_import_failed", item.id, "")
    /\ idx' = idx + 1
    /\ pc' = AfterItem(idx)

\* POST /items/{collection}: the create of an unmapped item, or the fallback
\* after a failed update
CreateItem ==
    /\ \/ pc = "write" /\ mappedLocalId = ""
       \/ pc = "create"
    /\ \E o \in Outcomes :
        /\ obs' = [obs EXCEPT !.faults = Tally(o),
                              !.c.itemPost = @ + 1,
                              !.ic.creates = @ + 1,
                              !.ic.createOk = (o = "ok"),
                              !.ic.written = IF o = "ok" THEN cleanItem ELSE @]
        /\ IF o = "ok"
           THEN /\ items' = (nextId.item :> cleanItem) @@ items
                /\ nextId' = [nextId EXCEPT !.item = @ + 1]
                /\ importResponse' = nextId.item
                /\ importedItems' = Append(importedItems,
                                           Success(item, nextId.item, "created"))
                /\ successCount' = successCount + 1
                /\ importLog' = logStep("item_imported", item.id, "")
                /\ pc' = "upsert"
                /\ UNCHANGED << errorCount, idx >>
           ELSE /\ ItemFailed
                /\ UNCHANGED << items, nextId, importResponse, successCount >>
    /\ UNCHANGED << folders, files, idMap, args, targetFolderId, fetchv,
                    fileIdCache, result, mappedLocalId, existingItemData,
                    cleanItem, key, perItem >>

\* ------------------------------------------------------------------ mapping
\* a variant of UpsertStep that only ever inserts when there is no row
UpsertStepInsertOnly(rows, localId) == IF rows # {} THEN "next" ELSE "mapPost"

\* a variant of UpsertStep that inserts whatever the store answered
UpsertStepAlwaysPost(rows, localId) == "mapPost"

\* upsertMapping's decision on the rows the store answered: patch the row
\* whose local_id differs, leave an equal one, insert when there is none
UpsertStep(rows, localId) ==
    IF rows # {}
    THEN IF FirstRow(rows).loc # String(localId) THEN "mapPatch" ELSE "next"
    ELSE "mapPost"

\* upsertMapping: GET /items/directus_sync_id_map
UpsertLookup ==
    /\ pc = "upsert"
    /\ \E o \in Outcomes :
        LET step == IF o = "ok" THEN UpsertStep(MapRows(item.id), importResponse)
                    ELSE "next"
        IN /\ obs' = [obs EXCEPT !.faults = Tally(o),
                                 !.ic.upsertFault = @ \/ o = "fail"]
           /\ pc' = IF step = "next" THEN AfterItem(idx) ELSE step
           /\ idx' = IF step = "next" THEN idx + 1 ELSE idx
    /\ UNCHANGED << env, args, runv, mappedLocalId, existingItemData, cleanItem,
                    key, perItem, importResponse >>

\* the row upsertMapping writes
NewRow(rid, syncId, localId) ==
    [rid |-> rid, sync |-> String(syncId), loc |-> String(localId)]

\* upsertMapping: PATCH /items/directus_sync_id_map/{existing.id}
UpsertPatch ==
    /\ pc = "mapPatch"
    /\ \E o \in Outcomes :
        LET existing == FirstRow(MapRows(item.id))
        IN /\ obs' = [obs EXCEPT !.faults = Tally(o), !.c.mapPatch = @ + 1,
                                 !.ic.upsertFault = @ \/ o = "fail"]
           /\ idMap' = IF o = "ok"
                       THEN (idMap \ {existing})
                            \cup {NewRow(existing.rid, item.id, importResponse)}
                       ELSE idMap
    /\ idx' = idx + 1
    /\ pc' = AfterItem(idx)
    /\ UNCHANGED << folders, files, items, nextId, args, runv, mappedLocalId,
                    existingItemData, cleanItem, key, perItem, importResponse >>

\* upsertMapping: POST /items/directus_sync_id_map
UpsertPost ==
    /\ pc = "mapPost"
    /\ \E o \in Outcomes :
        /\ obs' = [obs EXCEPT !.faults = Tally(o), !.c.mapPost = @ + 1,
                              !.ic.upsertFault = @ \/ o = "fail"]
        /\ IF o = "ok"
           THEN /\ idMap' = idMap \cup {NewRow(nextId.row, item.id, importResponse)}
                /\ nextId' = [nextId EXCEPT !.row = @ + 1]
           ELSE UNCHANGED << idMap, nextId >>
    /\ idx' = idx + 1
    /\ pc' = AfterItem(idx)
    /\ UNCHANGED << folders, files, items, args, runv, mappedLocalId,
                    existingItemData, cleanItem, key, perItem, importResponse >>

\* ------------------------------------------------------------------ return
\* a variant of RunSuccess that reports success only when no item failed
RunSuccessStrict(errors) == errors = 0

\* the success flag of the result returned after the loop
RunSuccess(errors) == TRUE

\* import_complete and the result after the loop
Finish ==
    /\ pc = "finish"
    /\ importLog' = logStep("import_complete", 0, "")
    /\ result' = [returned |-> TRUE, success |-> RunSuccess(errorCount),
                  message |-> Msg("Successfully imported", filterOf(titleFilter)),
                  hasItems |-> TRUE,
                  importedItems |-> importedItems]
    /\ pc' = "done"
    /\ UNCHANGED << env, args, targetFolderId, fetchv, fileIdCache,
                    importedItems, successCount, errorCount, itemv, obs >>

\* a stand-alone call sameFileMeta(src, dst)
CompareMeta ==
    /\ cmp.out = "none"
    /\ cmp' = [cmp EXCEPT !.out = IF sameFileMeta(cmp.src, cmp.dst)
                                  THEN "true" ELSE "false"]
    /\ UNCHANGED << env, source, limit, titleFilter, server, zipv, pc, runv, itemv,
                    obs >>

Next ==
    \/ StartImport
    \/ ValidateToken
    \/ FindFolder
    \/ CreateFolder
    \/ FetchSource
    \/ GetMappedLocalId
    \/ GetExisting
    \/ FieldSkip
    \/ FieldReuseInItem
    \/ FieldProbe
    \/ FieldCompare
    \/ FieldCopy
    \/ UpdateItem
    \/ CreateItem
    \/ UpsertLookup
    \/ UpsertPatch
    \/ UpsertPost
    \/ Finish

Spec == Init /\ [][Next]_vars

SpecTwice == InitTwice /\ [][Next]_vars

\* the function runs on whenever a call has returned or failed: no step of
\* it waits for anything else
SpecFair == InitFair /\ [][Next]_vars /\ WF_vars(Next)

SpecQuery == InitQuery /\ [][Next]_vars

SpecMeta == InitMeta /\ [][CompareMeta]_vars

\* ------------------------------------------------------- bundle: strings
\* File names, file ids, titles and language codes of the ZIP export and
\* import are sequences of characters.
UpperCase == << "A", "B", "C", "D", "E", "F", "G", "H", "I", "J", "K", "L", "M",
                "N", "O", "P", "Q", "R", "S", "T", "U", "V", "W", "X", "Y", "Z" >>

LowerCase == << "a", "b", "c", "d", "e", "f", "g", "h", "i", "j", "k", "l", "m",
                "n", "o", "p", "q", "r", "s", "t", "u", "v", "w", "x", "y", "z" >>

DigitChars == << "0", "1", "2", "3", "4", "5", "6", "7", "8", "9" >>

Range(s) == {s[i] : i \in DOMAIN s}

\* String.prototype.toLowerCase
toLowerCase(s) ==
    [i \in DOMAIN s |->
        IF s[i] \in Range(UpperCase)
        THEN LowerCase[CHOOSE j \in DOMAIN UpperCase : UpperCase[j] = s[i]]
        ELSE s[i]]

\* s.replace(/_/g, '-')
Dashed(s) == [i \in DOMAIN s |-> IF s[i] = "_" THEN "-" ELSE s[i]]

\* s.split(sep)[0]: the segment before the first sep
RECURSIVE SplitFirst(_, _)
SplitFirst(s, sep) ==
    IF s = << >> \/ Head(s) = sep THEN << >>
    ELSE << Head(s) >> \o SplitFirst(Tail(s), sep)

\* s.split(sep).pop(): the segment after the last sep
RECURSIVE SplitLast(_, _)
SplitLast(s, sep) ==
    IF \E i \in DOMAIN s : s[i] = sep THEN SplitLast(Tail(s), sep) ELSE s

\* String.prototype.endsWith
endsWith(s, suffix) ==
    Len(s) >= Len(suffix) /\ SubSeq(s, Len(s) - Len(suffix) + 1, Len(s)) = suffix

\* the characters the class [a-zA-Z0-9._-] holds
SafeChar(c) ==
    c \in Range(UpperCase) \cup Range(LowerCase) \cup Range(DigitChars)
          \cup {".", "_", "-"}

\* a variant of toSafe that leaves the name as it is
toSafeRaw(name) == name

\* toSafe: name.replace(/[^a-zA-Z0-9._-]+/g, "_")
RECURSIVE toSafe(_)
toSafe(name) ==
    LET RECURSIVE Skip(_)
        Skip(s) == IF s # << >> /\ ~SafeChar(Head(s)) THEN Skip(Tail(s)) ELSE s
    IN IF name = << >> THEN << >>
       ELSE IF SafeChar(Head(name)) THEN << Head(name) >> \o toSafe(Tail(name))
       ELSE << "_" >> \o toSafe(Skip(Tail(name)))

\* String(x) for the one-digit numbers that serve as ids
StringOf(n) == << DigitChars[n + 1] >>

\* ------------------------------------------------------- bundle: values
\* further shapes of a field value: a number, a boolean, an object without
\* an id, an array with its elements, and an absent key
Num(n) == [t |-> "num", v |-> n]

Bool(b) == [t |-> "bool", v |-> b]

OX == [t |-> "objx", v |-> << >>]

ArrOf(vs) == [t |-> "arr", v |-> vs]

\* an array of objects
Rows(os) == [t |-> "rows", v |-> os]

Undefined == [t |-> "undef", v |-> << >>]

\* payload[k], undefined for an absent key
Prop(payload, k) ==
    IF \E i \in DOMAIN payload : payload[i].k = k
    THEN payload[CHOOSE i \in DOMAIN payload : payload[i].k = k].val
    ELSE Undefined

\* payload[k] = val: in place for a key the object has, else as its last key
Put(payload, k, val) ==
    IF \E i \in DOMAIN payload : payload[i].k = k
    THEN [i \in DOMAIN payload |-> IF payload[i].k = k THEN F(k, val) ELSE payload[i]]
    ELSE Append(payload, F(k, val))

\* { k: _ignored, ...rest }
Without(payload, ks) == SelectSeq(payload, LAMBDA f : f.k \notin ks)

\* !v of JavaScript
Not(v) ==
    \/ v.t \in {"undef", "null"}
    \/ v.t = "str" /\ v.v = << >>
    \/ v.t = "num" /\ v.v = 0
    \/ v.t = "bool" /\ ~v.v

\* ------------------------------------------------------- bundle: schema
\* A row of the answer to the directus_fields query as the import reads it:
\* meta.special, meta.related_collection || related_collection ("" for
\* none), meta.required || schema.is_nullable === false, and
\* schema.default_value ?? meta.default_value (Undefined for none).
Field(name, special, related, required, defVal) ==
    [field |-> name, special |-> special, related |-> related,
     required |-> required, defVal |-> defVal]

isFileField(f) == "file" \in f.special \/ f.related = "directus_files"

allowedFieldNames(fields) == {fields[i].field : i \in DOMAIN fields}

fieldByName(fields, name) ==
    fields[CHOOSE i \in DOMAIN fields :
              /\ fields[i].field = name
              /\ \A j \in DOMAIN fields : fields[j].field = name => j <= i]

isSimpleValue(v) == v.t \in {"null", "str", "num", "bool"}

\* toIdIfObject: the id of an object whose id is a string, else the value
toIdIfObject(v) == IF v.t = "obj" THEN S(v.v) ELSE v

\* the status sanitizePayload gives an item without one
published == << "p", "u", "b", "l", "i", "s", "h", "e", "d" >>

\* sanitizePayload
sanitizePayload(raw, fields) ==
    LET Kept(f) ==
            /\ f.k \in allowedFieldNames(fields)
            /\ \/ isSimpleValue(f.val)
               \/ /\ f.val.t \in {"obj", "objn", "objx"}
                  /\ IF isFileField(fieldByName(fields, f.k))
                     THEN toIdIfObject(f.val).t = "str" /\ toIdIfObject(f.val).v # << >>
                     ELSE isSimpleValue(toIdIfObject(f.val))
        kept == SelectSeq(raw, Kept)
        reduced == [i \in DOMAIN kept |->
                       IF isSimpleValue(kept[i].val) THEN kept[i]
                       ELSE F(kept[i].k, toIdIfObject(kept[i].val))]
        status == Prop(reduced, "status")
    IN IF /\ "status" \in allowedFieldNames(fields)
          /\ status.t \in {"undef", "null"} \/ status = S(<< >>)
       THEN Put(reduced, "status", S(published))
       ELSE reduced

\* a variant of hasValue that takes no field for filled
hasValueNever(v) == FALSE

\* hasValue of fillRequiredDefaults
hasValue(v) == v.t \notin {"undef", "null"} /\ v # S(<< >>)

\* fillRequiredDefaults; first[c] is what GET /items/{c} with limit 1 gives:
\* out "row" with the id of the first row, "none" without a row, "fail" for a
\* failed request
RECURSIVE FillFrom(_, _, _, _)
FillFrom(out, fields, first, i) ==
    IF i > Len(fields) THEN out
    ELSE LET f == fields[i]
             cur == Prop(out, f.field)
         IN IF ~f.required \/ hasValue(cur) THEN FillFrom(out, fields, first, i + 1)
            ELSE IF f.defVal # Undefined
            THEN FillFrom(Put(out, f.field, f.defVal), fields, first, i + 1)
            ELSE IF /\ f.related # "" /\ cur.t # "arr" /\ "m2m" \notin f.special
                    /\ Not(cur)
                    /\ first[f.related].out = "row"
            THEN FillFrom(Put(out, f.field, S(StringOf(first[f.related].id))),
                          fields, first, i + 1)
            ELSE FillFrom(out, fields, first, i + 1)

fillRequiredDefaults(payload, fields, first) == FillFrom(payload, fields, first, 1)

\* allowedLanguageCodes: the codes of the target's languages, in lower case
allowedLanguageCodes(langs) == {toLowerCase(c) : c \in langs}

\* normalizeLang: the supported code, << >> for null
normalizeLang(code, allowed) ==
    IF code.t # "str" \/ code.v = << >> THEN << >>
    ELSE LET c == toLowerCase(Dashed(code.v))
             base == SplitFirst(c, "-")
         IN IF c \in allowed THEN c
            ELSE IF base # << >> /\ base \in allowed THEN base
            ELSE << >>

\* normalizeRich: the value of a { value: string } wrapper
normalizeRich(v) == IF v.t = "rich" THEN S(v.v) ELSE v

\* prepareTranslations: the cleaned entries, << >> for undefined
prepareTranslations(raw, allowed) ==
    LET trs == IF Prop(raw, "translations").t = "rows"
               THEN Prop(raw, "translations").v ELSE << >>
        Rich(t, k) == IF Prop(t, k) # Undefined
                      THEN Put(t, k, normalizeRich(Prop(t, k))) ELSE t
        Dropped(t) == /\ Prop(t, "languages_code") # Undefined
                      /\ normalizeLang(Prop(t, "languages_code"), allowed) = << >>
        Clean(t) ==
            LET out == Rich(Rich(Without(t, {"id"}), "title"), "body")
            IN IF Prop(out, "languages_code") = Undefined THEN out
               ELSE Put(out, "languages_code",
                        S(normalizeLang(Prop(out, "languages_code"), allowed)))
        live == SelectSeq(trs, LAMBDA t : ~Dropped(t))
    IN [i \in DOMAIN live |-> Clean(live[i])]

\* a variant of deriveItemTitleOf that looks at the item's own title only
deriveItemTitleOwn(raw) ==
    IF Prop(raw, "title").t = "str" /\ trim(Prop(raw, "title").v) # << >>
    THEN trim(Prop(raw, "title").v) ELSE << >>

\* deriveItemTitle in full, on an item whose strings are sequences of
\* characters and whose translations are an array of objects: the item's
\* own title, else the title of the first translation that has one, else
\* << >> for null.  (deriveItemTitle above is its restriction to the items
\* of ItemPool.)
deriveItemTitleOf(raw) ==
    LET own == Prop(raw, "title")
        translations == Prop(raw, "translations")
        t(tr) == IF Prop(tr, "title").t \in {"str", "rich"}
                 THEN Prop(tr, "title").v ELSE << >>
        RECURSIVE First(_)
        First(trs) ==
            IF trs = << >> THEN << >>
            ELSE IF t(Head(trs)) # << >> /\ trim(t(Head(trs))) # << >>
            THEN trim(t(Head(trs)))
            ELSE First(Tail(trs))
    IN IF own.t = "str" /\ trim(own.v) # << >> THEN trim(own.v)
       ELSE IF translations.t = "rows" THEN First(translations.v)
       ELSE << >>

\* ------------------------------------------------ bundle: stand-alone calls
\* Calls of sanitizePayload, fillRequiredDefaults and prepareTranslations on
\* their own.  A raw value takes every shape (Undefined stands for a key the
\* item lacks); the schema of sanitizePayload has a file field, a single
\* relation and a plain field; that of fillRequiredDefaults a filled title
\* and one field of every kind, with every answer the lookup of a related
\* row can get; prepareTranslations gets translations with every kind of
\* languages_code for targets with different languages; deriveItemTitle gets
\* items with every kind of own title and of translation titles (an entry
\* without keys stands for a null entry, which has no title either).
InitHelpers ==
    LET Object(pairs) == SelectSeq(pairs, LAMBDA f : f.val # Undefined)
        RawValues ==
            {Undefined, Null, S(<< "a", "1" >>), S(<< >>), Num(5), Bool(TRUE),
             O(<< "a", "1" >>), ON(5), OX, ArrOf(<< S(<< "a", "1" >>) >>)}
        RawItems ==
            {Object(<< F("image", a), F("site", b), F("status", c),
                       F("junk", S(<< "x" >>)) >>) : a, b, c \in RawValues}
        SanFields ==
            << Field("image", {"file"}, "directus_files", FALSE, Undefined),
               Field("site", {"m2o"}, "sites", FALSE, Undefined),
               Field("status", {}, "", FALSE, Undefined) >>
        FillFields ==
            {<< Field("title", {}, "", TRUE, S(<< "T" >>)),
                Field("site", sp, rel, req, dv) >> :
                sp \in {{}, {"m2m"}}, rel \in {"", "sites"}, req \in BOOLEAN,
                dv \in {Undefined, S(<< "d" >>)}}
        FillPayloads ==
            {Object(<< F("title", S(<< "P" >>)), F("site", v) >>) :
                v \in {Undefined, Null, S(<< >>), S(<< "s" >>), Num(0),
                       ArrOf(<< >>)}}
        FirstRows ==
            [out : {"fail", "none"}, id : {0}] \cup [out : {"row"}, id : {7}]
        Languages ==
            {{}, {<< "e", "n" >>}, {<< "e", "n", "-", "U", "S" >>, << "d", "e" >>},
             {<< "e", "n", "-", "u", "s" >>}}
        Codes ==
            {Undefined, Null, Num(1), S(<< "e", "n", "-", "U", "S" >>),
             S(<< "e", "n", "_", "U", "S" >>), S(<< "e", "n" >>),
             S(<< "d", "e" >>), S(<< "f", "r" >>)}
        Translation(code) ==
            Object(<< F("id", Num(1)), F("languages_code", code),
                      F("title", [t |-> "rich", v |-> << "T" >>]) >>)
        Translated ==
            {<< F("translations", Rows(trs)) >> :
                trs \in SeqsUpTo(MaxTranslations, {Translation(c) : c \in Codes})}
        Titles ==
            {Undefined, Null, Num(5), OX, S(<< >>), S(<< " " >>),
             S(<< " ", "A", " " >>), [t |-> "rich", v |-> << "B", " " >>],
             [t |-> "rich", v |-> << " " >>]}
        Titled ==
            {Object(<< F("title", a), F("translations", b) >>) :
                a \in Titles,
                b \in {Undefined, Null}
                      \cup {Rows(trs) :
                               trs \in SeqsUpTo(MaxTranslations,
                                                {Object(<< F("title", c) >>) :
                                                    c \in Titles})}}
    IN /\ Idle
       /\ BundleIdle
       /\ LiveIdle
       /\ \/ call \in [fn : {"sanitizePayload"}, raw : RawItems,
                       fields : {SanFields}, out : {<< >>}, done : {FALSE}]
          \/ call \in [fn : {"fillRequiredDefaults"}, payload : FillPayloads,
                       fields : FillFields, first : FirstRows, out : {<< >>},
                       done : {FALSE}]
          \/ call \in [fn : {"prepareTranslations"}, raw : Translated,
                       langs : Languages, out : {<< >>}, done : {FALSE}]
          \/ call \in [fn : {"deriveItemTitle"}, raw : Titled, out : {<< >>},
                       done : {FALSE}]

\* a stand-alone call sanitizePayload(raw)
SanitizeCall ==
    /\ call.fn = "sanitizePayload" /\ ~call.done
    /\ call' = [call EXCEPT !.out = sanitizePayload(call.raw, call.fields),
                            !.done = TRUE]
    /\ UNCHANGED << importv, bundlev >>

\* a stand-alone call fillRequiredDefaults(payload)
FillCall ==
    /\ call.fn = "fillRequiredDefaults" /\ ~call.done
    /\ call' = [call EXCEPT
                  !.out = fillRequiredDefaults(call.payload, call.fields,
                                               [c \in {"sites"} |-> call.first]),
                  !.done = TRUE]
    /\ UNCHANGED << importv, bundlev >>

\* a stand-alone call prepareTranslations(raw)
TranslationsCall ==
    /\ call.fn = "prepareTranslations" /\ ~call.done
    /\ call' = [call EXCEPT
                  !.out = prepareTranslations(call.raw,
                                              allowedLanguageCodes(call.langs)),
                  !.done = TRUE]
    /\ UNCHANGED << importv, bundlev >>

\* a stand-alone call deriveItemTitle(raw)
TitleCall ==
    /\ call.fn = "deriveItemTitle" /\ ~call.done
    /\ call' = [call EXCEPT !.out = deriveItemTitleOf(call.raw), !.done = TRUE]
    /\ UNCHANGED << importv, bundlev >>

NextHelpers == SanitizeCall \/ FillCall \/ TranslationsCall \/ TitleCall

SpecHelpers == InitHelpers /\ [][NextHelpers]_vars

\* ------------------------------------------------------- bundle: instances
\* The files of the exporting instance: GET /files/{id} answers with the
\* download name, GET /assets/{id} with the binary (here: its size).  The
\* second file is a JSON document.
ExportFiles ==
    {[id |-> << "a", "1" >>, size |-> 10,
      filename |-> << "m", " ", "p", "_", "x", ".", "p", "n", "g" >>],
     [id |-> << "b", "-", "2" >>, size |-> 20,
      filename |-> << "d", ".", "J", "S", "O", "N" >>]}

\* Items of the exported collection.  The first two share a title and a file
\* (once expanded to an object, once as an id); the first carries a
\* translation and a relation expanded to an object with a numeric id the
\* target has no row for, the second a relation the target has a row for and
\* the JSON document in a field the target's schema lacks;
\* the third has no title, references the JSON document, lists both files
\* in an array and carries a relation with a string id the target lacks.
BundlePool ==
    LET Post == S(<< "P", "o", "s", "t" >>)
        enUS == S(<< "e", "n", "-", "U", "S" >>)
    IN {<< F("id", Num(1)), F("title", Post), F("image", O(<< "a", "1" >>)),
           F("site", ON(6)),
           F("translations",
             Rows(<< << F("id", Num(1)), F("languages_code", enUS),
                        F("title", Post) >> >>)) >>,
        << F("id", Num(2)), F("title", Post), F("image", S(<< "a", "1" >>)),
           F("site", Num(5)), F("doc", S(<< "b", "-", "2" >>)) >>,
        << F("id", Num(3)), F("image", S(<< "b", "-", "2" >>)),
           F("gallery", ArrOf(<< S(<< "a", "1" >>), O(<< "b", "-", "2" >>) >>)),
           F("site", O(<< "s", "9" >>)) >>}

\* the answer of the target to the directus_fields query
BundleFields ==
    << Field("title", {}, "", FALSE, Undefined),
       Field("image", {"file"}, "directus_files", FALSE, Undefined),
       Field("site", {"m2o"}, "sites", FALSE, Undefined),
       Field("translations", {"translations"}, "", FALSE, Undefined) >>

\* a target without folders, files and items; its languages and the rows of
\* the related collection sites
TargetFresh ==
    [folders |-> << >>, files |-> << >>, items |-> << >>,
     langs |-> {<< "e", "n", "-", "U", "S" >>}, sites |-> {5}]

\* the outcomes the environment may give a request of the export or import
ZipOutcomes == IF zobs.faults < zobs.faultCap THEN {"ok", "fail"} ELSE {"ok"}

Failed(os) == Cardinality({i \in DOMAIN os : os[i] = "fail"})

RECURSIVE Flat(_)
Flat(ss) == IF ss = << >> THEN << >> ELSE Head(ss) \o Flat(Tail(ss))

\* ------------------------------------------------------- bundle: export
\* extractIds
RECURSIVE extractIds(_)
extractIds(v) ==
    IF Not(v) THEN << >>
    ELSE IF v.t = "str" THEN << v.v >>
    ELSE IF v.t = "arr" THEN Flat([i \in DOMAIN v.v |-> extractIds(v.v[i])])
    ELSE IF v.t = "obj" /\ v.v # << >> THEN << v.v >>
    ELSE << >>

\* the candidate ids in the order the loops over items, entries and ids
\* visit them
candidateIds(its) ==
    Flat([i \in DOMAIN its |->
             Flat([k \in DOMAIN its[i] |-> extractIds(its[i][k].val)])])

\* a variant of NextCandidate that takes the candidate at p whatever was added
NextCandidateAny(cands, added, p) == IF p <= Len(cands) THEN p ELSE Len(cands) + 1

\* the first candidate from position p on that is not in addedFileIds
NextCandidate(cands, added, p) ==
    IF \E q \in p..Len(cands) : cands[q] \notin added
    THEN CHOOSE q \in p..Len(cands) :
             cands[q] \notin added /\ \A r \in p..(q - 1) : cands[r] \in added
    ELSE Len(cands) + 1

\* a variant of safeName without the id
safeNameOfFile(id, filename) == toSafe(filename)

\* safeName: toSafe(`${candidateId}_${probe.filename}`)
safeName(id, filename) == toSafe(id \o << "_" >> \o filename)

\* zip.file(name, data): a new entry, or new data for the entry of that name
ZipFile(entries, name, data) ==
    IF \E i \in DOMAIN entries : entries[i].name = name
    THEN [i \in DOMAIN entries |->
             IF entries[i].name = name THEN [entries[i] EXCEPT !.data = data]
             ELSE entries[i]]
    ELSE Append(entries, [name |-> name, dir |-> FALSE, data |-> data])

\* the position of the export after the candidate at xloc.p
AfterCandidate(added) ==
    LET q == NextCandidate(xloc.cands, added, xloc.p + 1)
    IN /\ xloc' = [xloc EXCEPT !.p = q, !.addedFileIds = added]
       /\ zpc' = IF q > Len(xloc.cands) THEN "xfinish" ELSE "xprobe"

\* api.get(`/items/${collectionName}`) and zip.folder("files")
ExportStart ==
    /\ zpc = "xstart"
    /\ \E o \in ZipOutcomes :
        /\ zobs' = [zobs EXCEPT !.faults = @ + Failed(<< o >>)]
        /\ IF o = "fail"
           THEN /\ xloc' = [xloc EXCEPT !.result = [success |-> FALSE,
                                                   itemCount |-> 0, fileCount |-> 0]]
                /\ zpc' = "xfailed"
                /\ zip' = zip
           ELSE /\ xloc' = [xloc EXCEPT !.items = xitems,
                                       !.cands = candidateIds(xitems), !.p = 1]
                /\ zpc' = IF candidateIds(xitems) = << >> THEN "xfinish" ELSE "xprobe"
                /\ zip' = << [name |-> << "f", "i", "l", "e", "s", "/" >>,
                              dir |-> TRUE, data |-> 0] >>
    /\ UNCHANGED << xitems, tgt, zloc, call, importv >>

\* isExistingFile(candidateId)
ExportProbe ==
    /\ zpc = "xprobe"
    /\ \E o \in ZipOutcomes :
        LET found == {f \in ExportFiles : f.id = xloc.cands[xloc.p]}
        IN /\ zobs' = [zobs EXCEPT
                         !.faults = @ + Failed(<< o >>),
                         !.probes = Append(@, [id |-> xloc.cands[xloc.p],
                                               file |-> o = "ok" /\ found # {}])]
           /\ IF o = "ok" /\ found # {}
              THEN /\ xloc' = [xloc EXCEPT !.probe = CHOOSE f \in found : TRUE]
                   /\ zpc' = "xasset"
              ELSE AfterCandidate(xloc.addedFileIds)
    /\ UNCHANGED << xitems, zip, tgt, zloc, call, importv >>

\* api.get(`/assets/${candidateId}`) and filesFolder.file(safeName, blob)
ExportAsset ==
    /\ zpc = "xasset"
    /\ \E o \in ZipOutcomes :
        LET cand == xloc.cands[xloc.p]
            name == << "f", "i", "l", "e", "s", "/" >>
                        \o safeName(cand, xloc.probe.filename)
        IN IF o = "ok"
           THEN /\ zip' = ZipFile(zip, name, xloc.probe.size)
                /\ zobs' = [zobs EXCEPT
                              !.copied = Append(@, [id |-> cand, name |-> name])]
                /\ AfterCandidate(xloc.addedFileIds \cup {cand})
           ELSE /\ zip' = zip
                /\ zobs' = [zobs EXCEPT !.faults = @ + 1,
                                        !.dropped = Append(@, cand)]
                /\ AfterCandidate(xloc.addedFileIds)
    /\ UNCHANGED << xitems, tgt, zloc, call, importv >>

\* zip.file("items.json", ...) and the returned stats
ExportFinish ==
    /\ zpc = "xfinish"
    /\ zip' = ZipFile(zip, << "i", "t", "e", "m", "s", ".", "j", "s", "o", "n" >>,
                      xloc.items)
    /\ xloc' = [xloc EXCEPT !.result = [success |-> TRUE,
                                        itemCount |-> Len(xloc.items),
                                        fileCount |-> Cardinality(xloc.addedFileIds)]]
    /\ zpc' = "zstart"
    /\ UNCHANGED << xitems, tgt, zloc, zobs, call, importv >>

\* ------------------------------------------------------- bundle: import
\* the locals of importCollectionFromZip once items.json is parsed; << >>
\* stands for null and for an empty Map
Locals(its) ==
    [items |-> its, targetFolderId |-> << >>, fileIdToNewId |-> << >>,
     zipFileByOriginalId |-> << >>, entries |-> << >>, e |-> 0,
     filesUploaded |-> 0, filesSkipped |-> 0, created |-> 0, updated |-> 0,
     failed |-> 0, allowedLanguageCodes |-> {}, fields |-> << >>, i |-> 0,
     payload |-> << >>, needsDeep |-> FALSE, f |-> 0, existingId |-> 0,
     result |-> [success |-> FALSE, stats |-> FALSE]]

\* a variant of isAsset that takes every file of the archive for an asset
isAssetAny(f) == ~f.dir

\* the filter of the entries of filesFolder.files; these are the entries of
\* the whole archive, the folder object sharing them with the archive
isAsset(f) ==
    LET base == toLowerCase(SplitLast(f.name, "/"))
    IN /\ ~f.dir
       /\ base # << "i", "t", "e", "m", "s", ".", "j", "s", "o", "n" >>
       /\ ~endsWith(base, << ".", "j", "s", "o", "n" >>)

\* originalId: String(name.split('_')[0])
originalId(name) == SplitFirst(name, "_")

\* existingFiles?.data of the duplicate checks.  adminApi.request resolves to
\* the array of rows itself (the import reads it so for folders, languages,
\* fields, items and files by id), and an array has no data property
dataOf(existingFiles) == << >>

\* the id of the file a duplicate check takes the entry for, << >> for none
duplicateOf(name, size) ==
    LET existingFiles == SelectSeq(tgt.files, LAMBDA f : f.name = name)
        data == dataOf(existingFiles)
    IN IF Len(data) > 0 /\ data[1].size = size THEN data[1].id ELSE << >>

\* the id the target gives its next file
NewFileId == << "t", DigitChars[Len(tgt.files) + 2] >>

\* POST /files with the entry and the folder
Uploaded(entry) ==
    Append(tgt.files, [id |-> NewFileId, name |-> SplitLast(entry.name, "/"),
                       size |-> entry.data, folder |-> zloc.targetFolderId])

\* remapFileIds
RECURSIVE remapFileIds(_, _)
remapFileIds(v, map) ==
    IF Not(v) THEN v
    ELSE IF v.t = "str" THEN IF v.v \in DOMAIN map THEN S(map[v.v]) ELSE v
    ELSE IF v.t = "obj" THEN IF v.v \in DOMAIN map THEN O(map[v.v]) ELSE v
    ELSE IF v.t = "arr"
    THEN ArrOf([i \in DOMAIN v.v |-> remapFileIds(v.v[i], map)])
    ELSE IF v.t = "rows"
    THEN Rows([i \in DOMAIN v.v |->
                  [k \in DOMAIN v.v[i] |->
                      F(v.v[i][k].k, remapFileIds(v.v[i][k].val, map))]])
    ELSE v

\* the candidates of tryFindExistingId
candidates(payload) ==
    LET Usable(k) == Prop(payload, k).t = "str" /\ trim(Prop(payload, k).v) # << >>
        keys == SelectSeq(<< "url", "path", "slug", "name", "title" >>, Usable)
    IN [j \in DOMAIN keys |->
           [field |-> keys[j], value |-> trim(Prop(payload, keys[j]).v)]]

\* the next field from position p on that a loop over fieldByName acts on:
\* a file field with a value, or a single relation with a value
NextField(loop, payload, fields, p) ==
    LET Acts(j) ==
            LET current == Prop(payload, fields[j].field)
            IN /\ current.t \notin {"undef", "null"}
               /\ IF loop = "file" THEN isFileField(fields[j])
                  ELSE /\ fields[j].related # "" /\ "m2m" \notin fields[j].special
                       /\ current.t \notin {"arr", "rows"}
    IN IF \E j \in p..Len(fields) : Acts(j)
       THEN CHOOSE j \in p..Len(fields) : Acts(j) /\ \A r \in p..(j - 1) : ~Acts(r)
       ELSE Len(fields) + 1

\* where the item goes on after position p - 1 of a field loop
AfterFields(loop, payload, fields, p) ==
    LET jf == IF loop = "file" THEN NextField("file", payload, fields, p)
              ELSE Len(fields) + 1
        jr == NextField("rel", payload, fields, IF loop = "file" THEN 1 ELSE p)
    IN IF jf <= Len(fields) THEN [pc |-> "zfile", f |-> jf]
       ELSE IF jr <= Len(fields) THEN [pc |-> "zrel", f |-> jr]
       ELSE IF candidates(payload) # << >> THEN [pc |-> "zfind", f |-> 1]
       ELSE [pc |-> "zcreate", f |-> 0]

\* the query of the item write: updateItem(collectionName, existingId,
\* payload) and createItem(collectionName, payload) are called without one,
\* whatever needsDeep is
writeQuery(needsDeep) == [deep |-> FALSE]

\* the request of an item write, as the observation keeps it
Request(method, o) ==
    [run |-> zobs.run, item |-> zloc.i, method |-> method,
     payload |-> zloc.payload, query |-> writeQuery(zloc.needsDeep),
     needsDeep |-> zloc.needsDeep, ok |-> (o = "ok"),
     files |-> {tgt.files[j].id : j \in DOMAIN tgt.files},
     fileIdToNewId |-> zloc.fileIdToNewId]

\* a variant of AfterItemOfBundle that ends the loop after any item
AfterItemOfBundleEnd == "zfinish"

\* the item after this one, or the end of the loop
AfterItemOfBundle == IF zloc.i < Len(zloc.items) THEN "zitem" ELSE "zfinish"

\* JSZip.loadAsync, the token check, items.json
ZipStart ==
    /\ zpc = "zstart"
    /\ zobs.run < zobs.runCap
    /\ zobs' = [zobs EXCEPT !.run = @ + 1, !.rejected = FALSE]
    /\ LET itemsEntry == SelectSeq(zip, LAMBDA f :
                             f.name = << "i", "t", "e", "m", "s", ".", "j", "s", "o", "n" >>)
       IN IF itemsEntry = << >>
          THEN /\ zloc' = Locals(<< >>)
               /\ zpc' = "zstart"
          ELSE /\ zloc' = Locals(itemsEntry[1].data)
               /\ zpc' = "zfolder"
    /\ UNCHANGED << xitems, xloc, zip, tgt, call, importv >>

\* the lookup of the folder named after the collection and its creation
ZipFolder ==
    /\ zpc = "zfolder"
    /\ \E os \in [1..2 -> {"ok", "fail"}] :
        LET create == os[1] = "ok" /\ tgt.folders = << >>
            entries == SelectSeq(zip, isAsset)
        IN /\ os[2] = "fail" => create
           /\ zobs.faults + Failed(os) <= zobs.faultCap
           /\ zobs' = [zobs EXCEPT !.faults = @ + Failed(os),
                                   !.rejected = @ \/ os[2] = "fail"]
           /\ tgt' = IF create /\ os[2] = "ok"
                     THEN [tgt EXCEPT !.folders = << << "d", "1" >> >>] ELSE tgt
           /\ zloc' = [zloc EXCEPT
                         !.targetFolderId =
                             IF os[1] = "fail" \/ os[2] = "fail" THEN << >>
                             ELSE IF create THEN << "d", "1" >> ELSE tgt.folders[1],
                         !.entries = entries, !.e = 1]
           /\ zpc' = IF entries = << >> THEN "zlangs" ELSE "zentry"
    /\ UNCHANGED << xitems, xloc, zip, call, importv >>

\* one entry of the first pass: the duplicate check and the upload
ZipEntry ==
    /\ zpc = "zentry"
    /\ \E os \in [1..2 -> {"ok", "fail"}] :
        LET entry == zloc.entries[zloc.e]
            name == SplitLast(entry.name, "/")
            dup == IF os[1] = "ok" THEN duplicateOf(name, entry.data) ELSE << >>
            known == (originalId(name) :> entry) @@ zloc.zipFileByOriginalId
            last == zloc.e = Len(zloc.entries)
        IN /\ os[2] = "fail" => dup = << >>
           /\ zobs.faults + Failed(os) <= zobs.faultCap
           /\ zobs' = [zobs EXCEPT
                         !.faults = @ + Failed(os),
                         !.rejected = @ \/ os[2] = "fail",
                         !.uploads = IF dup = << >> /\ os[2] = "ok"
                                     THEN Append(@, name) ELSE @]
           /\ tgt' = IF dup = << >> /\ os[2] = "ok"
                     THEN [tgt EXCEPT !.files = Uploaded(entry)] ELSE tgt
           /\ zloc' = [zloc EXCEPT
                         !.zipFileByOriginalId = known,
                         !.fileIdToNewId =
                             IF dup # << >> THEN (originalId(name) :> dup) @@ @
                             ELSE IF os[2] = "ok"
                             THEN (originalId(name) :> NewFileId) @@ @
                             ELSE @,
                         !.filesSkipped = IF dup # << >> THEN @ + 1 ELSE @,
                         !.filesUploaded = IF dup = << >> /\ os[2] = "ok"
                                           THEN @ + 1 ELSE @,
                         !.e = @ + 1]
           /\ zpc' = IF last THEN "zlangs" ELSE "zentry"
    /\ UNCHANGED << xitems, xloc, zip, call, importv >>

\* the codes of the target's languages
ZipLanguages ==
    /\ zpc = "zlangs"
    /\ \E o \in ZipOutcomes :
        /\ zobs' = [zobs EXCEPT !.faults = @ + Failed(<< o >>)]
        /\ zloc' = [zloc EXCEPT !.allowedLanguageCodes =
                       IF o = "ok" THEN allowedLanguageCodes(tgt.langs) ELSE {}]
    /\ zpc' = "zfields"
    /\ UNCHANGED << xitems, xloc, zip, tgt, call, importv >>

\* the field definitions of the collection; a failure ends the import
ZipFields ==
    /\ zpc = "zfields"
    /\ \E o \in ZipOutcomes :
        /\ IF o = "fail"
           THEN /\ zloc' = zloc
                /\ zobs' = [zobs EXCEPT
                              !.faults = @ + 1,
                              !.returned = Append(@, [success |-> FALSE,
                                                      stats |-> FALSE])]
                /\ zpc' = "zstart"
           ELSE /\ zloc' = [zloc EXCEPT !.fields = BundleFields, !.i = 1]
                /\ zobs' = zobs
                /\ zpc' = IF zloc.items = << >> THEN "zfinish" ELSE "zitem"
    /\ UNCHANGED << xitems, xloc, zip, tgt, call, importv >>

\* the start of an item: remapFileIds, sanitizePayload, fillRequiredDefaults
\* (no field of the schema is required, so it sends no request) and
\* prepareTranslations
ZipPrepare ==
    /\ zpc = "zitem"
    /\ LET raw == zloc.items[zloc.i]
           rest == Without(raw, {"id", "date_created", "date_updated",
                                 "user_created", "user_updated"})
           remapped == [k \in DOMAIN rest |->
                           F(rest[k].k, remapFileIds(rest[k].val, zloc.fileIdToNewId))]
           filled == fillRequiredDefaults(
                         sanitizePayload(remapped, zloc.fields), zloc.fields,
                         [c \in {"sites", "directus_files"} |->
                             [out |-> "none", id |-> 0]])
           deepTranslations == prepareTranslations(remapped, zloc.allowedLanguageCodes)
           hasTranslations == "translations" \in allowedFieldNames(zloc.fields)
           needsDeep == hasTranslations /\ deepTranslations # << >>
           payload == IF needsDeep
                      THEN Put(filled, "translations", Rows(deepTranslations))
                      ELSE filled
           next == AfterFields("file", payload, zloc.fields, 1)
       IN /\ zloc' = [zloc EXCEPT !.payload = payload, !.needsDeep = needsDeep,
                                  !.f = next.f, !.existingId = 0]
          /\ zpc' = next.pc
    /\ UNCHANGED << xitems, xloc, zip, tgt, zobs, call, importv >>

\* one file field: ensureFileAvailable, or null for a value that is no string.
\* os gives the outcomes of the lookup of the file by id, of the patch of its
\* folder and of the upload from the archive.
ZipEnsureFile ==
    /\ zpc = "zfile"
    /\ \E os \in [1..3 -> {"ok", "fail"}] :
        LET name == zloc.fields[zloc.f].field
            current == Prop(zloc.payload, name)
            mapped == current.t = "str" /\ current.v \in DOMAIN zloc.fileIdToNewId
            lookup == current.t = "str" /\ ~mapped
            exists == {j \in DOMAIN tgt.files : tgt.files[j].id = current.v}
            meta == tgt.files[CHOOSE j \in exists : TRUE]
            found == lookup /\ os[1] = "ok" /\ exists # {}
            patch == /\ found /\ zloc.targetFolderId # << >>
                     /\ meta.folder # zloc.targetFolderId
            entry == zloc.zipFileByOriginalId[current.v]
            hasEntry ==
                /\ lookup /\ ~found /\ current.v \in DOMAIN zloc.zipFileByOriginalId
                /\ isAsset([name |-> entry.name, dir |-> FALSE])
            dup == IF hasEntry
                   THEN duplicateOf(SplitLast(entry.name, "/"), entry.data)
                   ELSE << >>
            upload == hasEntry /\ dup = << >>
            ensured == IF mapped THEN zloc.fileIdToNewId[current.v]
                       ELSE IF found THEN current.v
                       ELSE IF dup # << >> THEN dup
                       ELSE IF upload /\ os[3] = "ok" THEN NewFileId
                       ELSE << >>
            payload == Put(zloc.payload, name,
                           IF ensured = << >> THEN Null ELSE S(ensured))
            next == AfterFields("file", payload, zloc.fields, zloc.f + 1)
        IN /\ os[1] = "fail" => lookup
           /\ os[2] = "fail" => patch
           /\ os[3] = "fail" => upload
           /\ zobs.faults + Failed(os) <= zobs.faultCap
           /\ zobs' = [zobs EXCEPT
                         !.faults = @ + Failed(os),
                         !.rejected = @ \/ os[2] = "fail" \/ os[3] = "fail",
                         !.uploads = IF upload /\ os[3] = "ok"
                                     THEN Append(@, SplitLast(entry.name, "/"))
                                     ELSE @]
           /\ tgt' = IF patch /\ os[2] = "ok"
                     THEN [tgt EXCEPT !.files[CHOOSE j \in exists : TRUE].folder =
                                          zloc.targetFolderId]
                     ELSE IF upload /\ os[3] = "ok"
                     THEN [tgt EXCEPT !.files = Uploaded(entry)]
                     ELSE tgt
           /\ zloc' = [zloc EXCEPT
                         !.payload = payload, !.f = next.f,
                         !.fileIdToNewId =
                             IF dup # << >> THEN (current.v :> dup) @@ @
                             ELSE IF upload /\ os[3] = "ok"
                             THEN (current.v :> NewFileId) @@ @
                             ELSE @]
           /\ zpc' = next.pc
    /\ UNCHANGED << xitems, xloc, zip, call, importv >>

\* one single relation: the probe of the referenced row, null without a hit
ZipForeignKey ==
    /\ zpc = "zrel"
    /\ \E o \in ZipOutcomes :
        LET fld == zloc.fields[zloc.f]
            current == Prop(zloc.payload, fld.field)
            candidateIdStr ==
                IF current.t = "str" THEN current.v
                ELSE IF current.t = "num" THEN StringOf(current.v)
                ELSE IF current.v THEN << "t", "r", "u", "e" >>
                ELSE << "f", "a", "l", "s", "e" >>
            hit == IF fld.related = "directus_files"
                   THEN \E j \in DOMAIN tgt.files : tgt.files[j].id = candidateIdStr
                   ELSE \E r \in tgt.sites : StringOf(r) = candidateIdStr
            payload == IF o = "ok" /\ hit THEN zloc.payload
                       ELSE Put(zloc.payload, fld.field, Null)
            next == AfterFields("rel", payload, zloc.fields, zloc.f + 1)
        IN /\ zobs' = [zobs EXCEPT !.faults = @ + Failed(<< o >>)]
           /\ zloc' = [zloc EXCEPT !.payload = payload, !.f = next.f]
           /\ zpc' = next.pc
    /\ UNCHANGED << xitems, xloc, zip, tgt, call, importv >>

\* one candidate of tryFindExistingId
ZipFind ==
    /\ zpc = "zfind"
    /\ \E o \in ZipOutcomes :
        LET cand == candidates(zloc.payload)[zloc.f]
            hits == {j \in DOMAIN tgt.items :
                        Prop(tgt.items[j].payload, cand.field) = S(cand.value)}
            hit == CHOOSE j \in hits : \A r \in hits : j <= r
        IN /\ zobs' = [zobs EXCEPT !.faults = @ + Failed(<< o >>)]
           /\ IF o = "ok" /\ hits # {}
              THEN /\ zloc' = [zloc EXCEPT !.existingId = tgt.items[hit].id]
                   /\ zpc' = "zupdate"
              ELSE /\ zloc' = [zloc EXCEPT !.f = @ + 1]
                   /\ zpc' = IF zloc.f < Len(candidates(zloc.payload))
                             THEN "zfind" ELSE "zcreate"
    /\ UNCHANGED << xitems, xloc, zip, tgt, call, importv >>

\* the payload laid over a stored item
RECURSIVE Patch(_, _)
Patch(old, payload) ==
    IF payload = << >> THEN old
    ELSE Patch(Put(old, Head(payload).k, Head(payload).val), Tail(payload))

\* updateItem(collectionName, existingId, payload); a failure falls through
\* to the create
ZipUpdate ==
    /\ zpc = "zupdate"
    /\ \E o \in ZipOutcomes :
        /\ zobs' = [zobs EXCEPT !.faults = @ + Failed(<< o >>),
                                !.rejected = @ \/ o = "fail",
                                !.requests = Append(@, Request("update", o))]
        /\ IF o = "ok"
           THEN /\ tgt' = [tgt EXCEPT !.items[zloc.existingId].payload =
                                          Patch(@, zloc.payload)]
                /\ zloc' = [zloc EXCEPT !.updated = @ + 1, !.i = @ + 1]
                /\ zpc' = AfterItemOfBundle
           ELSE /\ tgt' = tgt
                /\ zloc' = zloc
                /\ zpc' = "zcreate"
    /\ UNCHANGED << xitems, xloc, zip, call, importv >>

\* createItem(collectionName, payload) and the count of the item
ZipCreate ==
    /\ zpc = "zcreate"
    /\ \E o \in ZipOutcomes :
        /\ zobs' = [zobs EXCEPT !.faults = @ + Failed(<< o >>),
                                !.rejected = @ \/ o = "fail",
                                !.requests = Append(@, Request("create", o))]
        /\ IF o = "ok"
           THEN /\ tgt' = [tgt EXCEPT !.items =
                              Append(@, [id |-> Len(@) + 1, payload |-> zloc.payload])]
                /\ zloc' = [zloc EXCEPT !.created = @ + 1, !.i = @ + 1]
           ELSE /\ tgt' = tgt
                /\ zloc' = [zloc EXCEPT !.failed = @ + 1, !.i = @ + 1]
        /\ zpc' = AfterItemOfBundle
    /\ UNCHANGED << xitems, xloc, zip, call, importv >>

\* the returned stats
ZipFinish ==
    /\ zpc = "zfinish"
    /\ LET stats == [created |-> zloc.created, updated |-> zloc.updated,
                     failed |-> zloc.failed, filesUploaded |-> zloc.filesUploaded,
                     filesSkipped |-> zloc.filesSkipped]
       IN /\ zloc' = [zloc EXCEPT !.result = [success |-> TRUE, stats |-> TRUE]]
          /\ zobs' = [zobs EXCEPT
                        !.returned = Append(@, [success |-> TRUE, stats |-> TRUE,
                                                counts |-> stats,
                                                items |-> Len(zloc.items),
                                                rejected |-> zobs.rejected])]
    /\ zpc' = "zstart"
    /\ UNCHANGED << xitems, xloc, zip, tgt, call, importv >>

\* an export of up to MaxBundleItems items with different ids followed by
\* imports of the bundle into a fresh target
InitBundle(runCap, faultCap) ==
    /\ Idle
    /\ call = NoCall
    /\ LiveIdle
    /\ zpc = "xstart"
    /\ xitems \in {its \in SeqsUpTo(MaxBundleItems, BundlePool) :
                      \A i, j \in DOMAIN its :
                          i # j => Prop(its[i], "id") # Prop(its[j], "id")}
    /\ xloc = [items |-> << >>, cands |-> << >>, p |-> 0, addedFileIds |-> {},
               probe |-> [id |-> << >>, size |-> 0, filename |-> << >>],
               result |-> [success |-> FALSE, itemCount |-> 0, fileCount |-> 0]]
    /\ zip = << >>
    /\ tgt = TargetFresh
    /\ zloc = Locals(<< >>)
    /\ zobs = [faults |-> 0, faultCap |-> faultCap, run |-> 0, runCap |-> runCap,
               rejected |-> FALSE, probes |-> << >>, copied |-> << >>,
               dropped |-> << >>,
               uploads |-> << >>, requests |-> << >>, returned |-> << >>]

NextBundle ==
    \/ ExportStart
    \/ ExportProbe
    \/ ExportAsset
    \/ ExportFinish
    \/ ZipStart
    \/ ZipFolder
    \/ ZipEntry
    \/ ZipLanguages
    \/ ZipFields
    \/ ZipPrepare
    \/ ZipEnsureFile
    \/ ZipForeignKey
    \/ ZipFind
    \/ ZipUpdate
    \/ ZipCreate
    \/ ZipFinish

\* one export and one import, with failing requests
SpecBundle == InitBundle(1, MaxFaultsBundle) /\ [][NextBundle]_vars

\* one export and two imports of its bundle
SpecBundleTwice == InitBundle(MaxBundleRuns, MaxFaultsBundleTwice) /\ [][NextBundle]_vars

\* ------------------------------------- bundle: resolveRelatedCollections
\* The schema discovery of the export, called on its own.  The source
\* instance has a start collection, a junction, two further collections and
\* the two system collections of files and folders; a schema is any choice
\* among the fields and relations below, which hold a field without a
\* relation, a chain of three hops, cycles through the start collection and
\* relations to and from directus_files.
FieldPool ==
    << [collection |-> "posts", related_collection |-> ""],
       [collection |-> "posts", related_collection |-> "authors"],
       [collection |-> "posts", related_collection |-> "directus_files"],
       [collection |-> "authors", related_collection |-> "posts"] >>

RelationPool ==
    << [collection |-> "posts_tags", related_collection |-> "posts",
        junction_collection |-> ""],
       [collection |-> "posts_tags", related_collection |-> "tags",
        junction_collection |-> ""],
       [collection |-> "tags", related_collection |-> "authors",
        junction_collection |-> "authors_tags"],
       [collection |-> "posts", related_collection |-> "directus_files",
        junction_collection |-> ""],
       [collection |-> "directus_files", related_collection |-> "directus_folders",
        junction_collection |-> ""] >>

\* the outcomes the requests of one pass may have
ResolveOutcomes ==
    {os \in [{"fields", "a", "b"} -> {"ok", "fail"}] :
        call.faults + Cardinality({n \in DOMAIN os : os[n] = "fail"})
            <= MaxFaultsResolve}

\* getFieldDefs: the rows of GET /fields/{col}, none when the request fails
getFieldDefs(col, o) ==
    IF o = "ok"
    THEN SelectSeq(call.fields, LAMBDA f : f.collection = col)
    ELSE << >>

\* getRelations: the relations col is the collection of, then those it is
\* the related collection of; none when one of the two requests fails
getRelations(col, oa, ob) ==
    IF oa = "ok" /\ ob = "ok"
    THEN SelectSeq(call.relations, LAMBDA r : r.collection = col)
         \o SelectSeq(call.relations, LAMBDA r : r.related_collection = col)
    ELSE << >>

\* a variant of Stops that never stops at a depth
StopsNever(depth, maxDepth) == FALSE

\* the guard of a pass: an entry at the depth limit is not expanded
Stops(depth, maxDepth) == depth >= maxDepth

\* add, applied to the collections cs in turn: one that is absent, is
\* directus_files, is the start or was visited changes nothing, any other is
\* marked visited and queued one hop deeper
RECURSIVE add(_, _, _, _)
add(cs, seen, q, depth) ==
    IF cs = << >> THEN [visited |-> seen, queue |-> q]
    ELSE LET c == Head(cs)
         IN IF c = "" \/ c = "directus_files" \/ c = call.start \/ c \in seen
            THEN add(Tail(cs), seen, q, depth)
            ELSE add(Tail(cs), seen \cup {c},
                     Append(q, [col |-> c, depth |-> depth + 1]), depth)

InitResolve ==
    /\ Idle
    /\ BundleIdle
    /\ LiveIdle
    /\ \E fs \in SUBSET DOMAIN FieldPool, rs \in SUBSET DOMAIN RelationPool,
          maxDepth \in 1..MaxDepth :
          call = [fn |-> "resolveRelatedCollections",
                  fields |-> SelectSeq(FieldPool,
                                 LAMBDA f : \E i \in fs : FieldPool[i] = f),
                  relations |-> SelectSeq(RelationPool,
                                 LAMBDA r : \E i \in rs : RelationPool[i] = r),
                  start |-> "posts", maxDepth |-> maxDepth,
                  visited |-> {},
                  queue |-> << [col |-> "posts", depth |-> 0] >>,
                  unanswered |-> {}, faults |-> 0, passes |-> 0,
                  out |-> {}, done |-> FALSE]

\* a pass of the while loop over an entry at the depth limit: continue
ResolveSkip ==
    /\ call.fn = "resolveRelatedCollections" /\ ~call.done
    /\ call.queue # << >>
    /\ Stops(Head(call.queue).depth, call.maxDepth)
    /\ call' = [call EXCEPT !.queue = Tail(@), !.passes = @ + 1]
    /\ UNCHANGED << importv, bundlev >>

\* a pass of the while loop that expands an entry: the related collections
\* of its fields are added, then both sides and the junction of its relations
ResolveExpand ==
    /\ call.fn = "resolveRelatedCollections" /\ ~call.done
    /\ call.queue # << >>
    /\ ~Stops(Head(call.queue).depth, call.maxDepth)
    /\ \E os \in ResolveOutcomes :
        LET col == Head(call.queue).col
            depth == Head(call.queue).depth
            fields == getFieldDefs(col, os["fields"])
            rels == getRelations(col, os["a"], os["b"])
            named == [i \in 1..Len(fields) |-> fields[i].related_collection]
                     \o Flat([i \in 1..Len(rels) |->
                                 << rels[i].collection,
                                    rels[i].related_collection,
                                    rels[i].junction_collection >>])
            after == add(named, call.visited, Tail(call.queue), depth)
        IN call' = [call EXCEPT
                      !.visited = after.visited,
                      !.queue = after.queue,
                      !.passes = @ + 1,
                      !.faults = @ + Cardinality({n \in DOMAIN os : os[n] = "fail"}),
                      !.unanswered =
                          @ \cup (IF os["fields"] = "fail"
                                  THEN {<< col, "fields" >>} ELSE {})
                            \cup (IF os["a"] = "fail" \/ os["b"] = "fail"
                                  THEN {<< col, "relations" >>} ELSE {})]
    /\ UNCHANGED << importv, bundlev >>

\* the queue is empty: return visited
ResolveReturn ==
    /\ call.fn = "resolveRelatedCollections" /\ ~call.done
    /\ call.queue = << >>
    /\ call' = [call EXCEPT !.out = call.visited, !.done = TRUE]
    /\ UNCHANGED << importv, bundlev >>

NextResolve == ResolveSkip \/ ResolveExpand \/ ResolveReturn

\* every await of the call settles, so a pass that can be taken is taken
SpecResolve == InitResolve /\ [][NextResolve]_vars /\ WF_vars(NextResolve)

\* ------------------------------------------------- page: importFromLive
\* The page of the module: its two inputs, its loading flags, its status
\* notice and up to MaxImports invocations of importFromLive, which run
\* interleaved at their awaits.  The access test and importFromDirectus
\* are taken by their outcomes: the test answers success, answers failure
\* with or without a status, or throws; the import returns a result of
\* every kind or throws.
LiveCollections == {"posts", "pages"}

Accesses ==
    [thrown : {FALSE}, success : {TRUE}, status : {0}]
    \cup [thrown : {FALSE}, success : {FALSE}, status : {0, 401}]
    \cup [thrown : {TRUE}, success : {FALSE}, status : {0}]

ImportResults ==
    [thrown : {FALSE}, success : {TRUE}, empty : {TRUE}, failed : {0}]
    \cup [thrown : {FALSE}, success : {TRUE}, empty : {FALSE}, failed : {0, 1}]
    \cup [thrown : {FALSE}, success : {FALSE}, empty : {FALSE}, failed : {0}]
    \cup [thrown : {TRUE}, success : {FALSE}, empty : {FALSE}, failed : {0}]

\* operationStatus.value = null
NoStatus == [status |-> 0, type |-> "null"]

\* whether the flag of a key is set; a key the object lacks reads undefined
Loading(k) == k \in DOMAIN loadingStates /\ loadingStates[k]

\* setLoading: the flag of the operation, and that of the operation and the
\* collection when a collection is given
setLoading(operation, collection, state) ==
    LET one == (<< operation, "" >> :> state) @@ loadingStates
    IN IF collection # ""
       THEN (<< operation, collection >> :> state) @@ one
       ELSE one

\* a variant of Finally that leaves the flags as they are
FinallyNone(collectionName) == loadingStates

\* the finally block of importFromLive
Finally(collectionName) == setLoading("import", collectionName, FALSE)

\* a variant of AfterPreflight that goes on to the import whatever the test
\* answered
AfterPreflightAlways(access) == "import"

\* where importFromLive continues after the access test: it returns when the
\* test answered failure, and goes on when it answered success or threw
AfterPreflight(access) ==
    IF ~access.thrown /\ ~access.success THEN "returned" ELSE "import"

\* the status shown once importFromDirectus has settled
StatusOf(res) ==
    IF res.thrown THEN [status |-> 500, type |-> "error"]
    ELSE IF res.success
    THEN [status |-> 200,
          type |-> IF res.empty THEN "info"
                   ELSE IF res.failed > 0 THEN "warning" ELSE "success"]
    ELSE [status |-> 500, type |-> "error"]

\* what is not of the page
offPage ==
    << call, bundlev, env, source, limit, titleFilter, server, cmp, pc, runv,
       itemv, obs >>

InitLive ==
    /\ Idle
    /\ call = NoCall
    /\ BundleIdle
    /\ LiveIdle

\* the user changes the server URL or the token, which the inputs allow
\* while loadingStates['import'] is not set
LiveEdit ==
    /\ ~Loading(<< "import", "" >>)
    /\ \E d \in {"", "https://source"}, t \in {"", "token"} :
        /\ << d, t >> # << selectedDomain, adminToken >>
        /\ selectedDomain' = d
        /\ adminToken' = t
    /\ UNCHANGED << offPage, loadingStates, operationStatus, liveCalls >>

\* importFromLive(collectionName) up to its first await
LiveStart ==
    /\ Len(liveCalls) < MaxImports
    /\ \E collectionName \in LiveCollections :
        IF selectedDomain = "" \/ adminToken = ""
        THEN /\ operationStatus' = [status |-> 400, type |-> "error"]
             /\ liveCalls' = Append(liveCalls,
                    [collectionName |-> collectionName, at |-> "returned",
                     token |-> "", set |-> FALSE, preflight |-> "none",
                     imported |-> FALSE, exit |-> "no_credentials"])
             /\ UNCHANGED loadingStates
        ELSE /\ loadingStates' = setLoading("import", collectionName, TRUE)
             /\ operationStatus' = NoStatus
             /\ liveCalls' = Append(liveCalls,
                    [collectionName |-> collectionName, at |-> "preflight",
                     token |-> adminToken, set |-> TRUE, preflight |-> "none",
                     imported |-> FALSE, exit |-> ""])
    /\ UNCHANGED << offPage, selectedDomain, adminToken >>

\* the access test of invocation i settles
LivePreflight(i) ==
    /\ i \in DOMAIN liveCalls
    /\ liveCalls[i].at = "preflight"
    /\ \E access \in Accesses :
        LET kind == IF access.thrown THEN "thrown"
                    ELSE IF access.success THEN "success" ELSE "failure"
        IN IF AfterPreflight(access) = "returned"
           THEN /\ operationStatus' =
                      [status |-> IF access.status # 0 THEN access.status ELSE 403,
                       type |-> "error"]
                /\ loadingStates' = Finally(liveCalls[i].collectionName)
                /\ liveCalls' = [liveCalls EXCEPT ![i].at = "returned",
                                                  ![i].preflight = kind,
                                                  ![i].exit = "denied"]
           ELSE /\ liveCalls' = [liveCalls EXCEPT ![i].at = "import",
                                                  ![i].preflight = kind,
                                                  ![i].imported = TRUE]
                /\ UNCHANGED << loadingStates, operationStatus >>
    /\ UNCHANGED << offPage, selectedDomain, adminToken >>

\* importFromDirectus of invocation i settles
LiveImport(i) ==
    /\ i \in DOMAIN liveCalls
    /\ liveCalls[i].at = "import"
    /\ \E res \in ImportResults :
        /\ operationStatus' = StatusOf(res)
        /\ liveCalls' = [liveCalls EXCEPT
                           ![i].at = "returned",
                           ![i].exit = IF res.thrown THEN "thrown"
                                       ELSE IF res.success THEN "success"
                                       ELSE "failed"]
    /\ loadingStates' = Finally(liveCalls[i].collectionName)
    /\ UNCHANGED << offPage, selectedDomain, adminToken >>

NextLive ==
    \/ LiveEdit
    \/ LiveStart
    \/ \E i \in 1..MaxImports : LivePreflight(i)
    \/ \E i \in 1..MaxImports : LiveImport(i)

\* an awaited access test and an awaited import settle
SpecLive ==
    /\ InitLive
    /\ [][NextLive]_vars
    /\ \A i \in 1..MaxImports :
          WF_vars(LivePreflight(i)) /\ WF_vars(LiveImport(i))

\* ------------------------------------------------------------------ claims
\* an invocation is in its item loop, or has left it
InLoop == obs.c.loop /\ pc \notin {"idle", "validate", "folder", "mkfolder", "fetch"}

\* the positions of the loop body before the entry of the item is pushed
BeforePush == {"lookup", "snapshot", "field", "compare", "copy", "write", "create"}

\* the positions of upsertMapping, after the entry was pushed
AfterPush == {"upsert", "mapPatch", "mapPost"}

\* the loop stands between two items, or is over: the observations of the
\* item (obs.ic) and the item-level variables are those of the last entry
ItemDone ==
    /\ InLoop
    /\ pc \in {"lookup", "finish", "done"}
    /\ Len(importedItems) >= 1

Last == importedItems[Len(importedItems)]

\* C1: once the run has reached the item loop, importedItems holds one entry
\* per item the loop has passed, in the order of the items selected for
\* import (the slice of the source items), whatever failed; when the run
\* returns, it returns one entry for every selected item.
C1_OneResultPerItem ==
    InLoop =>
        /\ itemsToImport = Slice(source, limit)
        /\ pc \in BeforePush => Len(importedItems) = idx - 1
        /\ pc \in AfterPush => Len(importedItems) = idx
        /\ \A k \in 1..Len(importedItems) :
              importedItems[k].originalId = itemsToImport[k].id
        /\ pc \in {"finish", "done"} => Len(importedItems) = Len(itemsToImport)
        /\ pc = "done" => /\ result.hasItems
                          /\ result.importedItems = importedItems

\* a run of two items whose first item failed and whose second was written
C1_Witness ==
    /\ InLoop /\ pc = "done"
    /\ Len(importedItems) = 2
    /\ importedItems[1].status = "error"
    /\ importedItems[2].status = "success"

\* C2: a run whose token validation passed and whose source fetch returned
\* returns success = TRUE, however many items failed.
C2_SuccessDespiteItemFailures ==
    (pc = "done" /\ obs.c.tokenOk /\ obs.c.fetched) =>
        /\ result.returned
        /\ result.success = TRUE

\* a returned run in which every one of two items failed
C2_Witness ==
    /\ pc = "done" /\ obs.c.tokenOk /\ obs.c.fetched
    /\ Len(itemsToImport) = 2
    /\ errorCount = 2
    /\ \A k \in 1..2 : importedItems[k].status = "error"

\* the ids of a sequence of items are pairwise distinct
DistinctIds(seq) ==
    \A i, j \in 1..Len(seq) : seq[i].id = seq[j].id => i = j

\* every entry of a sequence of results is a success with the given action
AllWith(results, action) ==
    \A k \in 1..Len(results) :
        results[k].status = "success" /\ results[k].action = action

\* C3: two runs over the same N source items (of pairwise distinct ids)
\* against a target that starts empty, with every call succeeding: the first
\* run records N results with action created, the second run issues no item
\* create and records N results with action updated, and the target holds N
\* items afterwards.
C3_SecondRunUpdates ==
    (/\ pc = "done" /\ obs.run = 2 /\ obs.faults = 0
     /\ obs.first.tokenOk /\ obs.c.tokenOk
     /\ DistinctIds(Slice(source, limit))) =>
        LET N == Len(Slice(source, limit))
        IN /\ Len(obs.first.importedItems) = N
           /\ AllWith(obs.first.importedItems, "created")
           /\ obs.c.itemPost = 0
           /\ Len(importedItems) = N
           /\ AllWith(importedItems, "updated")
           /\ Cardinality(DOMAIN items) = N

\* the second of two runs over two items has returned
C3_Witness ==
    /\ pc = "done" /\ obs.run = 2 /\ obs.faults = 0
    /\ obs.first.tokenOk /\ obs.c.tokenOk
    /\ DistinctIds(Slice(source, limit))
    /\ Len(importedItems) = 2
    /\ obs.c.itemPatch = 2

\* C4: a run whose token validation failed has returned success = FALSE at
\* once: it fetched no source items and no source file, issued no write to the
\* target, and left the target as it was at the call.
C4_TokenFailureStopsRun ==
    (pc = "done" /\ ~obs.c.tokenOk) =>
        /\ result.returned
        /\ result.success = FALSE
        /\ obs.c.srcFetch = 0
        /\ obs.c.srcFile = 0
        /\ obs.c.folderPost = 0 /\ obs.c.filePost = 0 /\ obs.c.filePatch = 0
        /\ obs.c.itemPost = 0 /\ obs.c.itemPatch = 0
        /\ obs.c.mapPost = 0 /\ obs.c.mapPatch = 0
        /\ << folders, files, items, idMap >> = obs.atStart
        /\ Len(importLog) = 2
        /\ importLog[2].step = "token_validation_failed"

\* a run has returned after its token validation failed
C4_Witness ==
    /\ pc = "done" /\ ~obs.c.tokenOk
    /\ result.returned
    /\ source # << >>

\* some entry of the log has the given step
Logged(step) == \E k \in 1..Len(importLog) : importLog[k].step = step

\* the source fetch of this run failed
FetchFailed == obs.c.srcFetch = 1 /\ ~obs.c.fetched

\* C5 as stated: every failure raised outside the per-item handler (a failure
\* of the folder provisioning or of the source fetch) ends the run with
\* success = FALSE and a fatal_error entry.
C5_AnyOuterFailureIsFatal ==
    (pc = "done" /\ (obs.c.folderFault \/ FetchFailed)) =>
        /\ result.success = FALSE
        /\ Logged("fatal_error")

\* what holds of every state of a run
C5_Safe ==
    /\ pc # "thrown"
    /\ pc = "done" => result.returned
    /\ (pc = "done" /\ FetchFailed) =>
          /\ result.success = FALSE
          /\ ~result.hasItems
          /\ importLog[Len(importLog)].step = "fatal_error"
    /\ obs.c.folderFault => /\ Logged("target_folder_error")
                            /\ pc # "done" \/ obs.c.srcFetch = 1
    /\ (pc = "done" /\ Logged("fatal_error")) => FetchFailed

\* C5, amended: every invocation returns a result object and never throws to
\* its caller; a failure of the source fetch, which no narrower handler
\* catches, ends the run with success = FALSE and a fatal_error entry, while a
\* failure of the folder provisioning is logged as target_folder_error and the
\* run goes on to the fetch.
C5_ReturnsAndFetchFailureIsFatal ==
    /\ []C5_Safe
    /\ (pc = "validate") ~> (pc = "done")

\* a run has returned after its source fetch failed
C5_Witness ==
    /\ pc = "done" /\ FetchFailed
    /\ result.returned /\ ~result.success
    /\ Logged("fatal_error")

\* C6: when an item has been processed with status success and no call of
\* its upsertMapping failed, the lookup of (collection, sourceId) returns the
\* target id recorded in the item's entry (newId, as a string).
C6_LookupReturnsNewId ==
    (ItemDone /\ Last.status = "success" /\ ~obs.ic.upsertFault) =>
        LocalIdOf(MapRows(Last.originalId)) = String(Last.newId)

\* an item that had a stale mapping row was created again and its row now
\* names the new target id
C6_Witness ==
    /\ ItemDone /\ Last.status = "success" /\ ~obs.ic.upsertFault
    /\ obs.ic.hadRow
    /\ Last.action = "created"
    /\ LocalIdOf(MapRows(Last.originalId)) = String(Last.newId)
    /\ idMap # obs.atStart[4]

\* C7: the mapping store holds at most one row per (collection, sourceId) in
\* every state of a run that started with at most one row per pair.
C7_OneRowPerPair ==
    \A r, q \in idMap : (r.sync = q.sync \/ r.rid = q.rid) => r = q

\* a run over two items of the same source id has changed the target id of
\* the pair's row
C7_Witness ==
    /\ InLoop /\ pc = "done"
    /\ Len(itemsToImport) = 2
    /\ itemsToImport[1].id = itemsToImport[2].id
    /\ AllWith(importedItems, importedItems[1].action)
    /\ obs.atStart[4] # {}
    /\ idMap # obs.atStart[4]
    /\ Cardinality(idMap) = 1

\* C8: an item for which the lookup found a mapping is written by one update
\* against the mapped target id; if that update fails exactly one create is
\* attempted; a create that succeeds gives the entry success / created, one
\* that fails gives the item's single entry the status error.  (An item
\* without a mapping is written by one create and no update.)
C8_UpdateThenFallback ==
    ItemDone =>
        /\ Len(importedItems) = idx - 1
        /\ Last.originalId = itemsToImport[idx - 1].id
        /\ mappedLocalId = "" => obs.ic.updates = 0 /\ obs.ic.creates = 1
        /\ mappedLocalId # "" =>
              /\ obs.ic.updates = 1
              /\ obs.ic.updTarget = mappedLocalId
              /\ obs.ic.updOk =>
                    /\ obs.ic.creates = 0
                    /\ Last.status = "success" /\ Last.action = "updated"
                    /\ String(Last.newId) = mappedLocalId
              /\ ~obs.ic.updOk =>
                    /\ obs.ic.creates = 1
                    /\ obs.ic.createOk =>
                          Last.status = "success" /\ Last.action = "created"
                    /\ ~obs.ic.createOk => Last.status = "error"

\* the update of a mapped item failed and the fallback create succeeded
C8_Witness ==
    /\ ItemDone /\ mappedLocalId # ""
    /\ ~obs.ic.updOk /\ obs.ic.createOk
    /\ Last.status = "success" /\ Last.action = "created"

\* a value references the source file f, as a string or as an object
Refs(v, f) == v = S(f) \/ v = O(f)

\* the source file a value references, "" if none
FileRef(v) == IF \E f \in SourceFiles : Refs(v, f)
              THEN CHOOSE f \in SourceFiles : Refs(v, f) ELSE ""

\* C9: when the fields of an item are resolved without a failed probe or
\* copy, two fields that reference the same source file hold the same target
\* file id, and at most one upload was issued for that file: exactly one,
\* unless the file was reused from the existing target item or taken from the
\* run-level cache.
C9_OneUploadTwoFields ==
    (InLoop /\ pc = "write" /\ ~obs.ic.fileFault) =>
        \A f \in SourceFiles : \A i, j \in 1..Len(cleanItem) :
            (i < j /\ Refs(CleanItem(item)[i].val, f)
                   /\ Refs(CleanItem(item)[j].val, f)) =>
                /\ cleanItem[i].val = cleanItem[j].val
                /\ cleanItem[i].val.t = "str"
                /\ cleanItem[i].val.v \in DOMAIN files
                /\ obs.ic.uploads[f] <= 1
                /\ (f \notin obs.ic.reusedFiles \cup obs.ic.hitFiles)
                      => obs.ic.uploads[f] = 1

\* both fields of ItemA hold the id of the one file uploaded for the item
C9_Witness ==
    /\ InLoop /\ pc = "write" /\ ~obs.ic.fileFault
    /\ item = ItemA
    /\ obs.ic.uploads["fa"] = 1
    /\ cleanItem[1].val = cleanItem[2].val
    /\ cleanItem[1].val.v \in DOMAIN files

\* the fields of the current item are resolved
Resolved == InLoop /\ pc = "write"

\* C10 as stated, on the runs in which no call fails: a source file uploaded
\* for an earlier item of the run is not uploaded again, and every later
\* field that references it holds the target file id of the run-level cache.
C10_LaterFieldGetsCachedId ==
    /\ \A f \in SourceFiles : obs.c.upOk[f] <= 1
    /\ (Resolved /\ obs.faults = 0) =>
          \A k \in 1..Len(cleanItem) :
              LET f == FileRef(CleanItem(item)[k].val)
              IN f \in obs.ic.cachedAtStart =>
                    /\ obs.ic.uploads[f] = 0
                    /\ cleanItem[k].val = S(fileIdCache[f])

\* C10, amended: a source file uploaded for an earlier item of the run is
\* never uploaded again; a later field that references it holds the target
\* file id of the run-level cache, unless its probe failed (it keeps its
\* source value) or the file of the existing target item was reused for that
\* source file (it holds that existing target file id).
C10_NoSecondUpload ==
    /\ \A f \in SourceFiles : obs.c.upOk[f] <= 1
    /\ Resolved =>
          \A k \in 1..Len(cleanItem) :
              LET f == FileRef(CleanItem(item)[k].val)
              IN f \in obs.ic.cachedAtStart =>
                    /\ obs.ic.uploads[f] = 0
                    /\ IF cleanItem[k].k \in obs.ic.failedKeys
                       THEN cleanItem[k].val = CleanItem(item)[k].val
                       ELSE IF f \in obs.ic.reusedFiles
                       THEN /\ cleanItem[k].val = S(perItem.s2t[f])
                            /\ perItem.s2t[f] \in DOMAIN files
                       ELSE cleanItem[k].val = S(fileIdCache[f])

\* the second item of a run holds, in a field, the id of the file that was
\* uploaded for the first item
C10_Witness ==
    /\ Resolved /\ idx = 2
    /\ obs.ic.hitFiles # {}
    /\ \E k \in 1..Len(cleanItem) :
          /\ FileRef(CleanItem(item)[k].val) \in obs.ic.cachedAtStart
          /\ cleanItem[k].val = S(fileIdCache[FileRef(CleanItem(item)[k].val)])

\* ------------------------------------------------------- claims C11 .. C20
\* the name of the field at position k of the item
Name(k) == cleanItem[k].k

\* the value the source item holds in the field at position k
SourceValue(k) == CleanItem(item)[k].val

\* the target file the snapshot of the existing item holds in the field at k
HeldFile(k) == existingTargetFileId(Get(existingItemData.data, Name(k)))

\* checksum, size and type of two files agree
SameMetadata(a, b) ==
    /\ a.checksum # "" /\ a.checksum = b.checksum
    /\ a.filesize = b.filesize
    /\ a.type = b.type

\* the field at k references a source file, and the existing target item
\* holds in the same field a target file of the same metadata
HoldsSameFile(k) ==
    /\ existingItemData.has
    /\ FileRef(SourceValue(k)) # ""
    /\ HeldFile(k) \in DOMAIN files
    /\ SameMetadata(SourceMeta(FileRef(SourceValue(k))), files[HeldFile(k)])

C12_ChecksumBeforeSizeAndType ==
    cmp.out \in {"true", "false"} =>
        LET sums == /\ cmp.src.checksum # "" /\ cmp.dst.checksum # ""
                    /\ cmp.src.checksum = cmp.dst.checksum
            sizes == /\ cmp.src.filesize >= 0 /\ cmp.dst.filesize >= 0
                     /\ cmp.src.filesize = cmp.dst.filesize
            clash == /\ cmp.src.type # "" /\ cmp.dst.type # ""
                     /\ cmp.src.type # cmp.dst.type
        IN /\ sums => cmp.out = "true"
           /\ ~sums => (cmp.out = "true" <=> (sizes /\ ~clash))

\* two files of equal checksum but different size and type are the same
C12_Witness ==
    /\ cmp.out = "true"
    /\ cmp.src.checksum = "ca" /\ cmp.dst.checksum = "ca"
    /\ cmp.src.filesize = 10 /\ cmp.dst.filesize = 20
    /\ cmp.src.type = "image/png" /\ cmp.dst.type = "image/jpeg"

\* C13: two runs in sequence against a target that starts without a folder
\* never leave two folders named after the collection: a second run that
\* finds the folder of the first uses it and issues no folder create.
C13_OneFolderAfterTwoRuns ==
    /\ Cardinality(folders) <= 1
    /\ (obs.run = 2 /\ obs.atStart[1] # {}) =>
          /\ obs.c.folderPost = 0
          /\ targetFolderId # "" => targetFolderId \in obs.atStart[1]

\* the second run has returned with the folder the first run created
C13_Witness ==
    /\ obs.run = 2 /\ pc = "done" /\ obs.c.tokenOk
    /\ obs.atStart[1] # {}
    /\ targetFolderId \in obs.atStart[1]
    /\ obs.c.folderPost = 0
    /\ Cardinality(folders) = 1

\* the filter a message quotes for a title filter: the trimmed filter
Quoted(tf) == IF tf.given THEN trim(tf.s) ELSE << >>

\* C14: when the source answers with no item, with or without a title
\* filter, the run returns success = TRUE with importedItems empty and the
\* message that the collection is empty, which quotes the trimmed title filter
\* if one was supplied; no item write, file upload, file patch or mapping
\* write is issued.
C14_EmptySourceIsSuccess ==
    (pc = "done" /\ obs.c.fetched /\ ~obs.c.loop) =>
        /\ result.returned /\ result.success = TRUE
        /\ result.hasItems /\ result.importedItems = << >>
        /\ result.message.text = "is empty on the source server"
        /\ result.message.filter = Quoted(titleFilter)
        /\ obs.c.itemPost = 0 /\ obs.c.itemPatch = 0
        /\ obs.c.filePost = 0 /\ obs.c.filePatch = 0
        /\ obs.c.mapPost = 0 /\ obs.c.mapPatch = 0
        /\ << files, items, idMap >> = << obs.atStart[2], obs.atStart[3], obs.atStart[4] >>

\* a source that holds items answered a title filter with none of them
C14_Witness ==
    /\ pc = "done" /\ obs.c.fetched /\ ~obs.c.loop
    /\ source # << >>
    /\ titleFilter.given /\ titleFilter.s # trim(titleFilter.s)
    /\ result.success
    /\ result.message.filter = << "o", "s" >>

\* the log holds an entry of the step for the item and the field
FileLogged(step, id, field) ==
    \E i \in 1..Len(importLog) : importLog[i] = Entry(step, id, field)

\* the positions of the loop body at which the fields of the item are handled
\* or have been handled
AtFields == {"field", "compare", "copy", "write", "create"}

NoSourceFile(v) == v.t \in {"str", "obj"} /\ v.v # "" /\ v.v \notin SourceFiles


\* the fields of the item that name no file of the source hold their source
\* value
C16_State ==
    (InLoop /\ pc \in AtFields) =>
        \A k \in 1..Len(cleanItem) :
            NoSourceFile(SourceValue(k)) => cleanItem[k].val = SourceValue(k)

\* the step at such a field is the probe and nothing else
C16_Step ==
    (pc = "field" /\ NoSourceFile(value)) =>
        /\ obs.c.srcFile' = obs.c.srcFile + 1
        /\ obs.c.filePost' = obs.c.filePost
        /\ obs.c.filePatch' = obs.c.filePatch
        /\ files' = files /\ fileIdCache' = fileIdCache
        /\ cleanItem' = cleanItem
        /\ key' = key + 1
        /\ pc' \in {"field", "write"}

\* C16: a field whose candidate id the probe of the source does not answer
\* with OK keeps its source value in the payload, and after the probe no
\* metadata read, binary read, upload or file patch is issued for it: the
\* loop goes on to the next field.
C16_UnprobedFieldUntouched == []C16_State /\ [][C16_Step]_vars

\* the title of ItemB, a string that names no file, was probed and is written
\* as it was
C16_Witness ==
    /\ ItemDone
    /\ itemsToImport[idx - 1] = ItemB
    /\ Last.status = "success"
    /\ obs.ic.written[1] = F("title", S("Post"))
    /\ obs.ic.failedKeys = {}

\* the array fields of the item hold their source value and their skip is
\* logged once the loop has passed them
C17_State ==
    (InLoop /\ pc \in AtFields) =>
        \A k \in 1..Len(cleanItem) :
            SourceValue(k).t = "arr" =>
                /\ cleanItem[k].val = SourceValue(k)
                /\ k < key => FileLogged("file_copy_skip", item.id, Name(k))

\* the step at an array field issues no request and changes the log only
C17_Step ==
    (pc = "field" /\ value.t = "arr") =>
        /\ obs' = obs
        /\ env' = env
        /\ << cleanItem, perItem, fileIdCache >>' = << cleanItem, perItem, fileIdCache >>
        /\ importLog' = Append(importLog, Entry("file_copy_skip", item.id, Name(key)))
        /\ key' = key + 1

\* C17: a field whose value is an array is never probed, fetched or uploaded
\* as a file: it is left unchanged in the payload and a file_copy_skip entry
\* is logged for it.
C17_ArrayFieldSkipped == []C17_State /\ [][C17_Step]_vars

\* ItemC was written with its array field as it was
C17_Witness ==
    /\ ItemDone
    /\ itemsToImport[idx - 1] = ItemC
    /\ Last.status = "success"
    /\ obs.ic.written[2] = F("cover", Arr)
    /\ FileLogged("file_copy_skip", 1, "cover")

\* C18: with a positive limit L the items processed are the first
\* min(L, number of fetched items) fetched items, in order, also when the
\* source answered with more than L items; with a limit that is absent, zero
\* or negative every fetched item is processed.
C18_LimitSlicesFetchedItems ==
    InLoop =>
        /\ limit > 0 => Len(itemsToImport) = Min(limit, Len(sourceItems))
        /\ limit <= 0 => Len(itemsToImport) = Len(sourceItems)
        /\ \A k \in 1..Len(itemsToImport) : itemsToImport[k] = sourceItems[k]
        /\ pc \in {"finish", "done"} =>
              /\ Len(importedItems) = Len(itemsToImport)
              /\ \A k \in 1..Len(importedItems) :
                    importedItems[k].originalId = sourceItems[k].id

\* a source that does not apply the limit answered with two items and one
\* was processed
C18_Witness ==
    /\ InLoop /\ pc = "done"
    /\ limit = 1
    /\ Len(sourceItems) = 2
    /\ Len(importedItems) = 1
    /\ importedItems[1].originalId = sourceItems[1].id

\* C19 as stated: the validation request of a run is sent to the source
\* instance, not to the target.
C19_ValidatedAgainstSource ==
    obs.c.validatedAt # "" => obs.c.validatedAt = "source"

\* an item has a translation whose title contains the string
HasTitle(it, sub) ==
    \E j \in 1..Len(it.translations) : Contains(it.translations[j], sub)

\* C20: with a title filter that is non-blank after trimming, the query sent
\* to the source carries the contains-filter on translations.title with the
\* trimmed value, and only items the source answered for that filter are
\* processed; an absent or blank filter adds no filter to the query.
C20_TitleFilterInQuery ==
    obs.c.srcFetch = 1 =>
        LET t == Quoted(titleFilter)
        IN /\ t # << >> => /\ obs.c.query.filtered
                           /\ obs.c.query.filter = t
                           /\ FileLogged("title_filter_applied", 0, "")
           /\ t = << >> => /\ ~obs.c.query.filtered
                           /\ ~FileLogged("title_filter_applied", 0, "")
           /\ InLoop =>
                 /\ sourceItems = readItems(source, obs.c.query)
                 /\ \A k \in 1..Len(itemsToImport) :
                       /\ itemsToImport[k] = sourceItems[k]
                       /\ t # << >> => HasTitle(itemsToImport[k], t)

\* of two source items only the one whose translation title contains the
\* trimmed filter was processed
C20_Witness ==
    /\ InLoop /\ pc = "done"
    /\ titleFilter = Given(<< " ", "o", "s", " " >>)
    /\ Len(source) = 2 /\ source[1] # ItemB /\ source[2] = ItemB
    /\ Len(importedItems) = 1
    /\ importedItems[1].originalId = ItemB.id

\* ------------------------------------------------------- claims C21 .. C30

\* the part of a language code before its first separator
BaseLanguage(code) == SplitFirst(Dashed(code), "-")

\* what the claim lets a translation entry's code become on a target with
\* the codes langs: itself, its base language, or nothing (<< >>)
Supported(code, langs) ==
    IF code.t # "str" THEN << >>
    ELSE IF code.v \in langs THEN code.v
    ELSE IF BaseLanguage(code.v) \in langs THEN BaseLanguage(code.v)
    ELSE << >>

\* C26: every translation entry of the cleaned list has lost its id and, if
\* it carries a languages_code, carries one of the target's language codes:
\* the entry's own code on an exact match, the base language when only that
\* is supported, and an entry with any other code is dropped.
C26_TranslationCodesSupported ==
    (call.fn = "prepareTranslations" /\ call.done) =>
        LET trs == Prop(call.raw, "translations").v
            Stays(t) == \/ Prop(t, "languages_code") = Undefined
                        \/ Supported(Prop(t, "languages_code"), call.langs) # << >>
            live == SelectSeq(trs, Stays)
        IN /\ Len(call.out) = Len(live)
           /\ \A i \in DOMAIN call.out :
                /\ Prop(call.out[i], "id") = Undefined
                /\ Prop(call.out[i], "languages_code") =
                       IF Prop(live[i], "languages_code") = Undefined THEN Undefined
                       ELSE S(Supported(Prop(live[i], "languages_code"), call.langs))

\* the fields of a schema that refer to a single file or row
ReferenceFields(fields) ==
    {fields[i].field : i \in {j \in DOMAIN fields : fields[j].related # ""}}

\* C28: a single file or relation field whose raw value is an object with an
\* id (a string or a number) comes out as that id; no array and no object is
\* part of the output.
C28_ObjectReducedToId ==
    (call.fn = "sanitizePayload" /\ call.done) =>
        /\ \A i \in DOMAIN call.raw :
             LET f == call.raw[i]
             IN (f.k \in ReferenceFields(call.fields) /\ f.val.t \in {"obj", "objn"}) =>
                    Prop(call.out, f.k) =
                        IF f.val.t = "obj" THEN S(f.val.v) ELSE Num(f.val.v)
        /\ \A i \in DOMAIN call.out :
             call.out[i].val.t \in {"null", "str", "num", "bool"}

\* a payload value that is absent, null or empty
Missing(v) == v.t \in {"undef", "null"} \/ (v.t = "str" /\ v.v = << >>)

\* C29: fillRequiredDefaults changes a field only if it is required and
\* absent, null or empty: it gives it the declared default if there is one,
\* otherwise, for a relation that is not many-to-many, the id of the row the
\* lookup of the related collection answers with; a failed or empty lookup
\* and any other field leave the payload as it was.
C29_FillsOnlyMissingRequired ==
    (call.fn = "fillRequiredDefaults" /\ call.done) =>
        /\ \A i \in DOMAIN call.out :
             call.out[i].k \in allowedFieldNames(call.fields)
        /\ \A i \in DOMAIN call.fields :
             LET f == call.fields[i]
                 old == Prop(call.payload, f.field)
                 new == Prop(call.out, f.field)
             IN IF f.required /\ Missing(old)
                THEN IF f.defVal # Undefined THEN new = f.defVal
                     ELSE IF /\ f.related # "" /\ "m2m" \notin f.special
                             /\ call.first.out = "row"
                     THEN new = S(StringOf(call.first.id))
                     ELSE new = old
                ELSE new = old

\* a required relation without a default and without a value got the id of
\* the related collection's first row, next to a title that was kept
C29_Witness ==
    /\ call.fn = "fillRequiredDefaults" /\ call.done
    /\ call.fields[2].required /\ call.fields[2].defVal = Undefined
    /\ call.fields[2].related = "sites" /\ call.fields[2].special = {}
    /\ Prop(call.payload, "site") = Null
    /\ Prop(call.out, "site") = S(<< "7" >>)
    /\ Prop(call.out, "title") = S(<< "P" >>)

\* a file name that ends in .json, whatever the case of its letters
IsJsonName(name) == endsWith(toLowerCase(name), << ".", "j", "s", "o", "n" >>)

\* C21: no entry of the bundle whose base name is items.json or ends in
\* .json is uploaded as a file, neither by the pass over the entries nor by
\* the upload for a file field of an item.
C21_NoJsonUploaded ==
    /\ \A i \in DOMAIN zobs.uploads : ~IsJsonName(zobs.uploads[i])
    /\ zpc # "off" => \A i \in DOMAIN tgt.files : ~IsJsonName(tgt.files[i].name)

\* an import of a bundle that holds a JSON document next to the manifest has
\* uploaded a file and has returned
C21_Witness ==
    /\ \E i, j \in DOMAIN zip :
         /\ i # j /\ ~zip[i].dir /\ ~zip[j].dir
         /\ IsJsonName(zip[i].name) /\ IsJsonName(zip[j].name)
    /\ zobs.uploads # << >>
    /\ zobs.returned # << >>

\* C22: for every file the export writes for a source file id, the segment
\* of the entry's name before the first underscore is that id, and the
\* import files the entry under it.  (File ids are UUIDs: letters, digits
\* and dashes.)
C22_RecoveredIdIsSourceId ==
    zpc # "off" =>
        /\ \A i \in DOMAIN zobs.copied :
             SplitFirst(SplitLast(zobs.copied[i].name, "/"), "_") = zobs.copied[i].id
        /\ \A k \in DOMAIN zloc.zipFileByOriginalId :
             \E i \in DOMAIN zobs.copied :
                 /\ zobs.copied[i].id = k
                 /\ zobs.copied[i].name = zloc.zipFileByOriginalId[k].name

\* the import has filed the entry of a file whose download name holds a
\* blank and an underscore under the id of the file
C22_Witness ==
    /\ zpc # "off"
    /\ << "a", "1" >> \in DOMAIN zloc.zipFileByOriginalId
    /\ zloc.zipFileByOriginalId[<< "a", "1" >>].name =
           << "f", "i", "l", "e", "s", "/", "a", "1", "_", "m", "_", "p", "_",
              "x", ".", "p", "n", "g" >>

\* how often the export has written a file for the id
Copies(id) == Cardinality({i \in DOMAIN zobs.copied : zobs.copied[i].id = id})

\* a probe of the id has answered with a file
ProbedAsFile(id) == \E i \in DOMAIN zobs.probes : zobs.probes[i].id = id /\ zobs.probes[i].file

\* exportCollectionAsZip has returned the bundle
Exported == zpc # "off" /\ xloc.result.success

\* C23 as stated: once the export has returned, every candidate the probe
\* resolved has been written exactly once, no other candidate has been
\* written, and fileCount is the number of distinct ids written.
C23_CopiedExactlyOnce ==
    Exported =>
        /\ \A id \in Range(xloc.cands) :
             Copies(id) = IF ProbedAsFile(id) THEN 1 ELSE 0
        /\ xloc.result.fileCount =
               Cardinality({zobs.copied[i].id : i \in DOMAIN zobs.copied})

\* C23, amended: once the export has returned, every candidate has been
\* written at most once, exactly once if the probe resolved it and no
\* download of it failed, and not at all if no probe resolved it; fileCount
\* is the number of distinct ids written.
C23_CopiedAtMostOnce ==
    Exported =>
        /\ \A id \in Range(xloc.cands) :
             /\ Copies(id) <= 1
             /\ (ProbedAsFile(id) /\ id \notin Range(zobs.dropped)) => Copies(id) = 1
             /\ ~ProbedAsFile(id) => Copies(id) = 0
        /\ xloc.result.fileCount =
               Cardinality({zobs.copied[i].id : i \in DOMAIN zobs.copied})

\* the export has returned a bundle with one copy of a file that two items
\* reference, and has skipped a candidate that is no file
C23_Witness ==
    /\ Exported
    /\ \E p, q \in DOMAIN xloc.cands :
         p # q /\ xloc.cands[p] = xloc.cands[q] /\ Copies(xloc.cands[p]) = 1
    /\ \E p \in DOMAIN xloc.cands : ~ProbedAsFile(xloc.cands[p])
    /\ xloc.result.fileCount = 1

\* the exported files whose entry name ends in .json
JsonCopies == {i \in DOMAIN zobs.copied : IsJsonName(zobs.copied[i].name)}

\* C25 as stated: a return with stats has created + updated + failed equal
\* to the number of items of the manifest; if no write of the import into the
\* empty target was rejected, created is the export's itemCount and
\* filesUploaded + filesSkipped is the export's fileCount.
C25_CountsMatchExport ==
    zpc # "off" =>
        \A r \in DOMAIN zobs.returned :
            LET ret == zobs.returned[r]
            IN ret.stats =>
                /\ ret.counts.created + ret.counts.updated + ret.counts.failed = ret.items
                /\ (r = 1 /\ ~ret.rejected) =>
                       /\ ret.counts.created = xloc.result.itemCount
                       /\ ret.counts.filesUploaded + ret.counts.filesSkipped =
                              xloc.result.fileCount

\* C25, amended: a return with stats has created + updated + failed equal to
\* the number of items of the manifest; if no write of the import into the
\* empty target was rejected, created + updated is the export's itemCount
\* and filesUploaded + filesSkipped is the export's fileCount less the files
\* whose entry name ends in .json.
C25_CountsMatchExportedAssets ==
    zpc # "off" =>
        \A r \in DOMAIN zobs.returned :
            LET ret == zobs.returned[r]
            IN ret.stats =>
                /\ ret.counts.created + ret.counts.updated + ret.counts.failed = ret.items
                /\ (r = 1 /\ ~ret.rejected) =>
                       /\ ret.counts.created + ret.counts.updated =
                              xloc.result.itemCount
                       /\ ret.counts.filesUploaded + ret.counts.filesSkipped =
                              xloc.result.fileCount - Cardinality(JsonCopies)

\* an import without a rejected write has returned for a bundle of two items
\* with the same title and two files, one of them a JSON document: one item
\* created, one updated, one file uploaded
C25_Witness ==
    /\ zpc # "off"
    /\ xloc.result.itemCount = 2 /\ xloc.result.fileCount = 2
    /\ Cardinality(JsonCopies) = 1
    /\ Len(zobs.returned) = 1
    /\ zobs.returned[1].stats /\ ~zobs.returned[1].rejected
    /\ zobs.returned[1].counts.created = 1 /\ zobs.returned[1].counts.updated = 1
    /\ zobs.returned[1].counts.filesUploaded = 1

\* C24: the import decides between create and update from the mapping of
\* (collection, source id), so that of two imports of the same bundle only
\* one creates a given item.
C24_NoItemCreatedTwice ==
    zpc # "off" =>
        \A a, b \in DOMAIN zobs.requests :
            (/\ zobs.requests[a].method = "create" /\ zobs.requests[a].ok
             /\ zobs.requests[b].method = "create" /\ zobs.requests[b].ok
             /\ zobs.requests[a].item = zobs.requests[b].item)
                => zobs.requests[a].run = zobs.requests[b].run

\* C27: a create or update request whose payload carries a non-empty list
\* of translations is sent with deep = true.
C27_TranslationsWrittenDeep ==
    zpc # "off" =>
        \A a \in DOMAIN zobs.requests :
            (/\ Prop(zobs.requests[a].payload, "translations").t = "rows"
             /\ Prop(zobs.requests[a].payload, "translations").v # << >>)
                => zobs.requests[a].query.deep

\* the id a raw value of a single relation or file field refers to
ReferredId(v) ==
    IF v.t \in {"num", "objn"} THEN StringOf(v.v) ELSE v.v

\* C30: every item the loop has passed has had its write attempted, and in
\* every write request a single relation or file field of the item whose
\* referenced id the target has no row or file for (the file neither
\* uploaded from the bundle) is null.
C30_MissingReferenceIsNull ==
    zpc # "off" =>
        /\ \A i \in 1..(zloc.i - 1) :
             \E a \in DOMAIN zobs.requests :
                 zobs.requests[a].run = zobs.run /\ zobs.requests[a].item = i
        /\ \A a \in DOMAIN zobs.requests :
             LET rq == zobs.requests[a]
                 raw == zloc.items[rq.item]
                 site == Prop(raw, "site")
                 image == Prop(raw, "image")
                 file == IF ReferredId(image) \in DOMAIN rq.fileIdToNewId
                         THEN rq.fileIdToNewId[ReferredId(image)]
                         ELSE ReferredId(image)
             IN /\ (/\ site.t \in {"str", "num", "obj", "objn"}
                     /\ \A r \in tgt.sites : StringOf(r) # ReferredId(site))
                        => Prop(rq.payload, "site") = Null
                /\ (image.t \in {"str", "obj"} /\ file \notin rq.files)
                        => Prop(rq.payload, "image") = Null

\* ------------------------------------------------------- claims C31 .. C40

\* the entries that end the processing of an item
Terminal == {"item_imported", "item_updated", "item_import_failed"}

\* the entries about a file field of an item
FileEvents ==
    {"file_copy_skip", "file_reused_in_item", "file_reused",
     "file_reused_and_patched", "file_copy_start", "file_copy_success",
     "file_copy_error"}

\* the number of terminal entries before position j of the log
TerminalsBefore(j) ==
    Cardinality({i \in 1..(j - 1) : importLog[i].step \in Terminal})

\* the terminal entry that goes with an entry of importedItems
TerminalOf(r) ==
    IF r.status = "error" THEN "item_import_failed"
    ELSE IF r.action = "updated" THEN "item_updated" ELSE "item_imported"

\* the log of a call starts with import_start, its terminal entries are those
\* of importedItems in the same order, one for each processed item, and a
\* file entry written after k terminal entries is about item k + 1
C31_State ==
    pc # "idle" =>
        /\ importLog # << >> /\ importLog[1].step = "import_start"
        /\ LET ends == SelectSeq(importLog, LAMBDA e : e.step \in Terminal)
           IN /\ Len(ends) = Len(importedItems)
              /\ \A k \in DOMAIN ends :
                   /\ ends[k].step = TerminalOf(importedItems[k])
                   /\ ends[k].item = importedItems[k].originalId
                   /\ ends[k].item = itemsToImport[k].id
        /\ \A j \in DOMAIN importLog :
             importLog[j].step \in FileEvents =>
                 /\ TerminalsBefore(j) < Len(itemsToImport)
                 /\ importLog[j].item = itemsToImport[TerminalsBefore(j) + 1].id

\* a step within a call leaves the entries of the log in place
C31_Step ==
    pc' # "validate" =>
        /\ Len(importLog) <= Len(importLog')
        /\ SubSeq(importLog', 1, Len(importLog)) = importLog

\* C31: during a run importLog only grows by appends and import_start is its
\* first entry; every processed item has exactly one terminal entry
\* (item_imported, item_updated or item_import_failed), in the order of the
\* entries of importedItems, and every file entry of an item lies between
\* the terminal entry of the item before it and its own.
C31_LogAppendOnlyAndOrdered == []C31_State /\ [][C31_Step]_vars

\* a run has ended with a failed first item and a second item that logged
\* the copy of a file before it was written
C31_Witness ==
    /\ pc = "done"
    /\ Len(importedItems) = 2
    /\ importedItems[1].status = "error"
    /\ importedItems[2].status = "success"
    /\ \E j \in DOMAIN importLog :
         importLog[j].step = "file_copy_success" /\ TerminalsBefore(j) = 1

\* the text of a title: a string, or the value of an object that wraps one
TitleText(v) == IF v.t \in {"str", "rich"} THEN v.v ELSE << >>

NonBlank(s) == \E i \in DOMAIN s : s[i] # " "

\* C32: deriveItemTitle returns the item's own title trimmed when it is a
\* non-blank string, otherwise the trimmed title of the first translation
\* entry whose title (a string or an object with a string value) is
\* non-blank, otherwise none.
C32_TitleOwnThenFirstTranslation ==
    (call.fn = "deriveItemTitle" /\ call.done) =>
        LET own == Prop(call.raw, "title")
            trs == IF Prop(call.raw, "translations").t = "rows"
                   THEN Prop(call.raw, "translations").v ELSE << >>
            titled == {i \in DOMAIN trs : NonBlank(TitleText(Prop(trs[i], "title")))}
            first == CHOOSE i \in titled : \A j \in titled : i <= j
        IN IF own.t = "str" /\ NonBlank(own.v)
           THEN call.out = trim(own.v) /\ NonBlank(call.out)
           ELSE IF titled # {}
           THEN call.out = trim(TitleText(Prop(trs[first], "title")))
           ELSE call.out = << >>

\* an item with a blank title got the title of its second translation, an
\* object with a value, the first translation being blank
C32_Witness ==
    /\ call.fn = "deriveItemTitle" /\ call.done
    /\ Prop(call.raw, "title") = S(<< " " >>)
    /\ Len(Prop(call.raw, "translations").v) = 2
    /\ Prop(Prop(call.raw, "translations").v[1], "title") = S(<< " " >>)
    /\ Prop(Prop(call.raw, "translations").v[2], "title").t = "rich"
    /\ call.out = << "B" >>

\* C33: an item whose read of the mapping store failed has no mapped id: it
\* is never read as an existing item nor updated, it is written by exactly
\* one create, and an accepted create gives it the status success, whether
\* or not the store could be read or written after the write.  (A store
\* that is absent fails every read, so this holds of every item of the run.)
C33_FailedLookupMeansCreate ==
    /\ (InLoop /\ pc \in BeforePush \cup AfterPush /\ pc # "lookup"
              /\ obs.ic.lookupFault) =>
           /\ mappedLocalId = ""
           /\ pc # "snapshot"
           /\ obs.ic.updates = 0
    /\ (ItemDone /\ obs.ic.lookupFault) =>
           /\ mappedLocalId = ""
           /\ obs.ic.updates = 0 /\ obs.ic.creates = 1
           /\ obs.ic.createOk =>
                 /\ Last.status = "success" /\ Last.action = "created"
                 /\ Last.originalId = itemsToImport[idx - 1].id
                 /\ Last.newId \in DOMAIN items

\* a run over one item that had a mapping row has returned: both reads of
\* the store failed, the item was created and no update was sent
C33_Witness ==
    /\ ItemDone /\ pc = "done"
    /\ Len(itemsToImport) = 1
    /\ obs.ic.hadRow /\ obs.ic.lookupFault /\ obs.ic.upsertFault
    /\ obs.c.itemPatch = 0 /\ obs.c.itemPost = 1
    /\ Last.status = "success" /\ Last.action = "created"
    /\ result.success

\* C34: after an item was written and a request of its upsertMapping failed,
\* the item's entry is its success entry with its action and the id of the
\* written target item, it is the last entry and no error was counted or
\* logged for the item, and the loop stands at the next item, or is over
\* with a result that reports success.
C34_UpsertFailureNotSurfaced ==
    (ItemDone /\ obs.ic.upsertFault) =>
        /\ Len(importedItems) = idx - 1
        /\ Last = Success(itemsToImport[idx - 1], importResponse,
                          IF obs.ic.updOk THEN "updated" ELSE "created")
        /\ importResponse \in DOMAIN items
        /\ errorCount =
               Cardinality({k \in DOMAIN importedItems :
                               importedItems[k].status = "error"})
        /\ LET end == IF pc = "done" THEN Len(importLog) - 1 ELSE Len(importLog)
           IN importLog[end] =
                  Entry(IF obs.ic.updOk THEN "item_updated" ELSE "item_imported",
                        Last.originalId, "")
        /\ IF idx <= Len(itemsToImport) THEN pc = "lookup"
           ELSE /\ pc \in {"finish", "done"}
                /\ pc = "done" =>
                      result.success /\ result.importedItems = importedItems

\* the update of the first of two items was followed by a failed request of
\* upsertMapping, and the loop stands at the second item
C34_Witness ==
    /\ ItemDone /\ obs.ic.upsertFault
    /\ pc = "lookup" /\ idx = 2
    /\ Last.action = "updated"

\* the entries that report an error
ErrorSteps ==
    {"target_folder_error", "file_copy_error",
     "item_update_failed_fallback_create", "item_import_failed", "fatal_error"}

\* the step appends an entry that reports an error
ErrorLogged ==
    \E j \in (Len(importLog) + 1)..Len(importLog') : importLog'[j].step \in ErrorSteps

\* the positions whose failures are caught without a log entry: the reads
\* and writes of the mapping store, the snapshot of the existing item and the
\* comparison with the file it holds
Silent == {"lookup", "snapshot", "compare", "upsert", "mapPatch", "mapPost"}

C36_ErrorItemLeavesMapping ==
    [][idMap' # idMap =>
          /\ pc \in {"mapPatch", "mapPost"}
          /\ Len(importedItems) = idx
          /\ Last.status = "success"
          /\ Last.originalId = item.id
          /\ \E row \in idMap' :
                /\ idMap' \ idMap = {row}
                /\ row.sync = String(Last.originalId)
                /\ row.loc = String(Last.newId)
                /\ Cardinality(idMap \ idMap') <= 1]_vars

\* a mapped item whose update and whose fallback create both failed has its
\* error entry, and the store holds the rows it held when the run began
C36_Witness ==
    /\ pc \in {"lookup", "finish", "done"}
    /\ Len(importedItems) >= 1
    /\ Last.status = "error"
    /\ obs.ic.hadRow
    /\ obs.ic.updates = 1 /\ ~obs.ic.updOk
    /\ obs.ic.creates = 1 /\ ~obs.ic.createOk
    /\ idMap = obs.atStart[4]
    /\ idMap # {}


\* the collections one hop from c: those a field of c relates it to, and both
\* sides and the junction of every relation that names c on either side;
\* asked is TRUE when only the requests that were answered count
Hops(c, asked) ==
    {call.fields[i].related_collection :
        i \in {j \in DOMAIN call.fields :
                 /\ call.fields[j].collection = c
                 /\ ~(asked /\ << c, "fields" >> \in call.unanswered)}}
    \cup UNION {{call.relations[i].collection,
                 call.relations[i].related_collection,
                 call.relations[i].junction_collection} :
                   i \in {j \in DOMAIN call.relations :
                            /\ c \in {call.relations[j].collection,
                                      call.relations[j].related_collection}
                            /\ ~(asked /\ << c, "relations" >> \in call.unanswered)}}

\* the collections within k hops of the start collection
RECURSIVE Within(_)
Within(k) ==
    IF k = 0 THEN {call.start}
    ELSE Within(k - 1) \cup UNION {Hops(c, FALSE) : c \in Within(k - 1)}

\* the collections within k hops of the start collection that the answered
\* requests show, on paths that do not pass through directus_files
RECURSIVE WithinAnswered(_)
WithinAnswered(k) ==
    IF k = 0 THEN {call.start}
    ELSE WithinAnswered(k - 1)
         \cup UNION {Hops(c, TRUE) :
                        c \in WithinAnswered(k - 1) \ {"directus_files"}}

Returned == call.fn = "resolveRelatedCollections" /\ call.done

\* C37 as stated: the call returns, and what it returns is the set of the
\* collections within maxDepth hops of the start collection, less the start
\* collection and directus_files.
C37_ReturnsAllWithinDepth ==
    /\ <>Returned
    /\ [](Returned =>
            call.out = Within(call.maxDepth) \ {"", call.start, "directus_files"})

\* C37, amended: the call returns, and what it returns is the set of the
\* collections within maxDepth hops of the start collection that the answered
\* fields and relations requests show on paths that do not pass through
\* directus_files, less the start collection and directus_files.
C37_ReturnsAnsweredWithinDepth ==
    /\ <>Returned
    /\ [](Returned =>
            call.out = WithinAnswered(call.maxDepth)
                           \ {"", call.start, "directus_files"})

\* a call on a schema with a cycle through the start collection and a chain
\* of three hops has returned the collections of the first two hops after
\* three passes of its loop
C37_Witness ==
    /\ Returned
    /\ call.maxDepth = 2
    /\ call.faults = 0
    /\ call.passes = 3
    /\ call.out = {"posts_tags", "tags"}
    /\ "authors_tags" \in Within(3)


\* C38: an invocation of importFromLive whose access test answered failure
\* has returned without calling importFromDirectus, and one whose access
\* test threw has called it.
C38_PreflightFailureStopsThrowProceeds ==
    \A i \in DOMAIN liveCalls :
        /\ liveCalls[i].preflight = "failure" =>
              /\ ~liveCalls[i].imported
              /\ liveCalls[i].at = "returned"
              /\ liveCalls[i].exit = "denied"
        /\ liveCalls[i].preflight = "thrown" => liveCalls[i].imported

\* one invocation was stopped by the answer of its access test, and another,
\* whose access test threw, has imported with success
C38_Witness ==
    /\ Len(liveCalls) = 2
    /\ liveCalls[1].preflight = "failure" /\ ~liveCalls[1].imported
    /\ operationStatus.status = 200
    /\ liveCalls[2].preflight = "thrown" /\ liveCalls[2].exit = "success"

\* C39: a loading flag of a collection that is set is cleared later, and the
\* step in which an invocation that set its flag returns leaves that flag
\* cleared, whichever way it returns.
C39_LoadingFlagCleared ==
    /\ \A c \in LiveCollections :
          Loading(<< "import", c >>) ~> ~Loading(<< "import", c >>)
    /\ \A i \in 1..MaxImports :
          (i \in DOMAIN liveCalls /\ liveCalls[i].set)
              ~> (i \in DOMAIN liveCalls /\ liveCalls[i].at = "returned")
    /\ [][\A i \in DOMAIN liveCalls :
            liveCalls[i].set /\ liveCalls[i].at # "returned"
                /\ liveCalls'[i].at = "returned"
            => ~Loading(<< "import", liveCalls[i].collectionName >>)']_vars

\* two invocations that set their flags have returned, one stopped by its
\* access test and one by an exception of the import, and no flag is set
C39_Witness ==
    /\ Len(liveCalls) = 2
    /\ liveCalls[1].set /\ liveCalls[1].exit = "thrown"
    /\ liveCalls[2].set /\ liveCalls[2].exit = "denied"
    /\ \A k \in DOMAIN loadingStates : ~loadingStates[k]

\* C40 as stated: while an invocation of importFromLive is between its
\* first statement and its return, loadingStates['import'] is set.
C40_ImportFlagWhileInProgress ==
    (\E i \in DOMAIN liveCalls : liveCalls[i].at \in {"preflight", "import"})
        => Loading(<< "import", "" >>)

=============================================================================
